---- MODULE Spec2Model ----
(***************************************************************************)
(* Model of the Qvantum cloud client (api.py) and of the per-device data   *)
(* update coordinators (__init__.py).                                       *)
(*                                                                          *)
(* Python None / an absent value is the empty sequence <<>>, a present     *)
(* value v is <<v>>.  Time is in seconds.  One step of the model is one    *)
(* call of a request helper (token check + HTTP request) or one local      *)
(* step of a handler; the server's answers are chosen with \E.             *)
(***************************************************************************)
EXTENDS Integers, Sequences, FiniteSets, TLC

(* ------------------------------ bounds --------------------------------- *)
\* last instant the clock reaches
MaxTime == 240
\* most request-helper calls that fail between two set-ups of the entry
MaxFaults == 1
\* token sets the server issues to jobs running side by side
MaxIssued == 2

(* --------------------------- program constants ------------------------- *)
\* api.py:116  timedelta(seconds=int(expiresIn) - 60)
Margin == 60
\* api.py:626  if write_level >= 20
ElevatedLevel == 20
\* __init__.py:612  0 < time_until_expiry < 300
RenewWindow == 300

(* ------------------------------ inputs --------------------------------- *)
\* lifetimes (expiresIn) the identity server may report
Lifetimes == {30, 90}
\* steps by which the clock advances between operations
TickSteps == {30, 60}
\* HTTP error statuses a server may answer with (raise_for_status raises
\* for 400..599)
HttpStatuses == {401, 404, 503, 504}
\* device ids handed out by the cloud (opaque strings)
DeviceIds == {"qv-17", "qv-5031"}

VARIABLES
    now,            \* wall clock, datetime.now()
    phase,          \* progress of async_setup_entry
    device_id,      \* the device of the two coordinators
    tokens,         \* QvantumApi.tokens   (<<>> or <<[expiresIn |-> L]>>)
    token_expiry,   \* QvantumApi.token_expiry (<<>> or <<t>>)
    issueTime,      \* history: instant of the last successful acquisition
    last,           \* history: the most recent request made by setup or as
                    \* an operation of its own
    auto_elevate_enabled, \* the flag of the normal and of the fast coordinator
    store,          \* the persisted flags, by device id
    inv,            \* inventory caches of the normal coordinator
    invLog,         \* history of the caches: the value each first held, the
                    \* inventories requested again after that, and those
                    \* left without a request while the cache was None
    published,      \* coordinator.data of the normal and the fast coordinator
    op,             \* the operation running (or the last one run)
    pc,             \* position inside the operation
    outcome,        \* how the operation ended, "running" while it runs
    faults,         \* failed helper calls since the entry was set up
    elev,           \* the elevate_access call running (or the last one)
    data,           \* the snapshot _update_data builds and returns
    metricsOut,     \* history: how the exchange of the cycle's
                    \* internal-metrics fetch ended (NoOut: none was made)
    seen,           \* history of a normal cycle: whether the access check
                    \* before the fetches found a level below 20, how the
                    \* elevation it started ended, and the access level
                    \* the fetch at the end answered with
    failed,         \* history: the fetches of the cycle that raised
    cmd,            \* the command a set_* call sends
    threads,        \* the executor jobs inside _ensure_tokens_valid: where
                    \* each one is and the token set its exchange answered
    grants,         \* history: how many token sets the server has issued,
                    \* which of them the client got last, which one it
                    \* holds and which one token_expiry was computed from
    calls,          \* history: how many calls of get_access_level
                    \* _update_data has made in the cycle
    refresh_requested, \* the operation has called async_request_refresh of
                    \* the normal coordinator
    saving          \* per device: the async_set_auto_elevate call in flight

tokVars == <<tokens, token_expiry, issueTime>>
coordVars == <<auto_elevate_enabled, store, inv, invLog, published>>
opVars == <<op, pc, outcome, faults, elev, data, metricsOut, seen, failed,
           cmd>>
vars == <<now, phase, device_id, tokens, token_expiry, issueTime, last,
          auto_elevate_enabled, store, inv, invLog, published,
          op, pc, outcome, faults, elev, data, metricsOut, seen, failed, cmd,
          threads, grants, calls, refresh_requested, saving>>

(* ----------------------- outcomes of one HTTP exchange ----------------- *)
OkOut == [kind |-> "ok", status |-> 200, expiresIn |-> 0]
TimeoutOut == [kind |-> "timeout", status |-> 0, expiresIn |-> 0]
HttpOut(s) == [kind |-> "http", status |-> s, expiresIn |-> 0]
\* no exchange was made
NoOut == [kind |-> "none", status |-> 0, expiresIn |-> 0]

FailOutcomes == {TimeoutOut} \cup {HttpOut(s) : s \in HttpStatuses}
\* what a request to the API host can end in
SendOutcomes == {OkOut} \cup FailOutcomes
\* what a sign-in or a refresh-token exchange can end in
AuthOutcomes ==
    {[kind |-> "ok", status |-> 200, expiresIn |-> l] : l \in Lifetimes}
        \cup FailOutcomes

(* ------------------------------ exceptions ----------------------------- *)
\* An exception is its class and the text of its message; of the text the
\* model keeps the set of fragments that the coordinators search for.
NoErr == [cls |-> "none", text |-> {}]
Err(c, t) == [cls |-> c, text |-> t]

\* substrings of the request URL: the path holds the device id
UrlText(dev) == IF dev = "qv-5031" THEN {"503"} ELSE {}

\* str(err) of the requests exception.  raise_for_status() builds
\* "<status> Client|Server Error: <reason> for url: <url>"; a read timeout
\* or a connection error names the host only.
LibText(o, url) ==
    IF o.kind = "http"
    THEN {ToString(o.status)} \cup url
            \cup (IF o.status >= 500 THEN {"Server Error"} ELSE {"Client Error"})
    ELSE {}

\* `hasattr(err, "response") and err.response`: the exception carries a
\* response and the response is truthy.  requests.Response.__bool__ returns
\* Response.ok, which is False for every status raise_for_status() raises
\* on (400..599); a timeout or connection error carries no response.
ResponseTruthy(o) == o.kind = "http" /\ o.status < 400

\* message of the `status_code >= 500` branch of each helper
ServerErrorText(verb, o) ==
    IF verb = "GET_INTERNAL"
    THEN {"Internal server error", ToString(o.status)}
    ELSE {"Server error", ToString(o.status)}

\* except-clauses of _get_request / _get_internal_request / _patch_request /
\* _post_request, applied to a failed exchange o
Classify(verb, o, url) ==
    IF o.kind = "timeout"
    THEN Err("ApiConnectionError", LibText(o, url))
    ELSE IF ResponseTruthy(o) /\ o.status = 401
    THEN Err("AuthenticationError", {})
    ELSE IF ResponseTruthy(o) /\ o.status >= 500
    THEN Err("ApiConnectionError", ServerErrorText(verb, o))
    ELSE Err("QvantumApiError", LibText(o, url))

\* except-clauses of authenticate()
AuthenticateError(o) ==
    IF o.kind = "timeout"
    THEN Err("ApiConnectionError", LibText(o, {}))
    ELSE IF ResponseTruthy(o) /\ o.status = 401
    THEN Err("AuthenticationError", {})
    ELSE IF ResponseTruthy(o) /\ o.status >= 500
    THEN Err("ApiConnectionError", {"Server error"} \cup LibText(o, {}))
    ELSE Err("QvantumApiError", LibText(o, {}))

\* except-clauses of _refresh_access_token()
RefreshError(o) ==
    IF o.kind = "timeout"
    THEN Err("ApiConnectionError", LibText(o, {}))
    ELSE IF ResponseTruthy(o) /\ o.status = 401
    THEN Err("AuthenticationError", {})
    ELSE IF ResponseTruthy(o) /\ o.status >= 500
    THEN Err("ApiConnectionError", {"Server error"} \cup LibText(o, {}))
    ELSE Err("QvantumApiError", LibText(o, {}))

\* `except QvantumApiError` catches the base class and its two subclasses
\* (as it would be if the subclasses did not derive from the base class)
IsQvantumApiError_OnlyBase(e) == e.cls = "QvantumApiError"
IsQvantumApiError(e) ==
    e.cls \in {"QvantumApiError", "AuthenticationError", "ApiConnectionError"}

(* ------------------------------ token check ---------------------------- *)
\* the condition of _ensure_tokens_valid
\* (as it would be with `>` for `>=`)
NeedsAcquire_Late(tk, exp, t) == tk = <<>> \/ exp = <<>> \/ t > exp[1]
NeedsAcquire(tk, exp, t) == tk = <<>> \/ exp = <<>> \/ t >= exp[1]

\* token_expiry as _ensure_tokens_valid recomputes it
ExpiryFor(t, l) == t + l - Margin

\* authenticate(): one sign-in; on success the token set is replaced.
\* token_expiry is not touched here.
Authenticate(tk, sOut) ==
    IF sOut.kind = "ok"
    THEN [tokens |-> <<[expiresIn |-> sOut.expiresIn]>>,
          err |-> NoErr, nSignin |-> 1]
    ELSE [tokens |-> tk, err |-> AuthenticateError(sOut), nSignin |-> 1]

\* _refresh_access_token(): one refresh exchange; on success the token set
\* is updated in place
\* (as it would be if a failed exchange dropped the token set)
RefreshAccessToken_DropOnFailure(tk, rOut) ==
    IF tk = <<>>
    THEN [tokens |-> tk, nRefresh |-> 0,
          err |-> Err("AuthenticationError", {})]
    ELSE IF rOut.kind = "ok"
    THEN [tokens |-> <<[expiresIn |-> rOut.expiresIn]>>,
          err |-> NoErr, nRefresh |-> 1]
    ELSE [tokens |-> <<>>, err |-> RefreshError(rOut), nRefresh |-> 1]
RefreshAccessToken(tk, rOut) ==
    IF tk = <<>>
    THEN [tokens |-> tk, nRefresh |-> 0,
          err |-> Err("AuthenticationError", {})]
    ELSE IF rOut.kind = "ok"
    THEN [tokens |-> <<[expiresIn |-> rOut.expiresIn]>>,
          err |-> NoErr, nRefresh |-> 1]
    ELSE [tokens |-> tk, err |-> RefreshError(rOut), nRefresh |-> 1]

\* _ensure_tokens_valid() at instant t; rOut / sOut are what a refresh and
\* a sign-in would end in if they are made
EnsureTokensValid(tk, exp, iss, t, rOut, sOut) ==
    IF ~NeedsAcquire(tk, exp, t)
    THEN [tokens |-> tk, token_expiry |-> exp, issueTime |-> iss,
          err |-> NoErr, nRefresh |-> 0, nSignin |-> 0]
    ELSE
      LET r == RefreshAccessToken(tk, rOut)
          viaRefresh == tk # <<>>
          fallback == viaRefresh /\ r.err.cls = "AuthenticationError"
          a == Authenticate(tk, sOut)
          nR == IF viaRefresh THEN r.nRefresh ELSE 0
          nS == IF ~viaRefresh \/ fallback THEN a.nSignin ELSE 0
          res == IF viaRefresh /\ ~fallback THEN r ELSE a
      IN IF res.err = NoErr
         THEN [tokens |-> res.tokens,
               token_expiry |-> <<ExpiryFor(t, res.tokens[1].expiresIn)>>,
               issueTime |-> t,
               err |-> NoErr, nRefresh |-> nR, nSignin |-> nS]
         ELSE [tokens |-> res.tokens, token_expiry |-> exp, issueTime |-> iss,
               err |-> res.err, nRefresh |-> nR, nSignin |-> nS]

\* the requests a helper puts on the wire once the token check has passed:
\* `requests.get(...)` (`.post`, `.patch`) is called once and every
\* except clause raises
\* (as it would be if a failed request were sent once more)
Sends_AgainOnFailure(sendOut) == IF sendOut.kind = "ok" THEN 1 ELSE 2
Sends(sendOut) == 1

\* One call of a request helper: the token check, then - when the check
\* did not raise - the request itself, ending in sendOut.
Request(verb, url, tk, exp, iss, t, rOut, sOut, sendOut) ==
    LET c == EnsureTokensValid(tk, exp, iss, t, rOut, sOut)
        sent == c.err = NoErr
        e == IF ~sent THEN c.err
             ELSE IF sendOut.kind = "ok" THEN NoErr
             ELSE Classify(verb, sendOut, url)
    IN [tokens |-> c.tokens, token_expiry |-> c.token_expiry,
        issueTime |-> c.issueTime, err |-> e, sent |-> sent,
        hist |-> [verb |-> verb,
                  hadTokens |-> tk # <<>>,
                  expired |-> NeedsAcquire(tk, exp, t),
                  pastExpiry |-> exp # <<>> /\ t >= exp[1],
                  fresh |-> tk # <<>> /\ t < ExpiryFor(iss, tk[1].expiresIn),
                  rOut |-> IF c.nRefresh = 1 THEN rOut ELSE NoOut,
                  sendOut |-> IF sent THEN sendOut ELSE NoOut,
                  nRefresh |-> c.nRefresh, nSignin |-> c.nSignin,
                  sent |-> sent,
                  nSend |-> IF sent THEN Sends(sendOut) ELSE 0,
                  sentValid |-> sent /\ c.tokens # <<>>
                                  /\ c.token_expiry # <<>>
                                  /\ t < c.token_expiry[1],
                  sentLifetime |-> IF sent THEN c.tokens[1].expiresIn ELSE 0,
                  err |-> e]]

NoHist ==
    [verb |-> "none", hadTokens |-> FALSE, expired |-> FALSE,
     pastExpiry |-> FALSE,
     fresh |-> FALSE, rOut |-> NoOut, sendOut |-> NoOut,
     nRefresh |-> 0, nSignin |-> 0, sent |-> FALSE, nSend |-> 0,
     sentValid |-> FALSE, sentLifetime |-> 0, err |-> NoErr]

\* the exchanges a token check at instant t can make: a refresh when a
\* token set exists, a sign-in when none exists or the refresh raised
\* AuthenticationError
RefreshChoices(tk, exp, t) ==
    IF NeedsAcquire(tk, exp, t) /\ tk # <<>> THEN AuthOutcomes ELSE {NoOut}

SigninChoices(tk, exp, t, rOut) ==
    IF NeedsAcquire(tk, exp, t)
       /\ (tk = <<>> \/ (rOut.kind # "ok"
                          /\ RefreshError(rOut).cls = "AuthenticationError"))
    THEN AuthOutcomes ELSE {NoOut}

\* every way one call of the helper `verb` can go in the current state
Responses(verb, url) ==
    UNION { UNION { { Request(verb, url, tokens, token_expiry, issueTime, now,
                              rOut, sOut, sendOut) :
                        sendOut \in SendOutcomes } :
                    sOut \in SigninChoices(tokens, token_expiry, now, rOut) } :
            rOut \in RefreshChoices(tokens, token_expiry, now) }

Verbs == {"GET", "GET_INTERNAL", "POST", "PATCH"}
Kinds == {"normal", "fast"}

(* --------------------------- response bodies --------------------------- *)
\* my-access-level: a dict that may lack writeAccessLevel / expiresAt
Access(w, e) ==
    [writeAccessLevel |-> w, readAccessLevel |-> w, expiresAt |-> e]
AccessBodies(t) ==
    { Access(<<10>>, <<>>), Access(<<>>, <<>>),
      Access(<<ElevatedLevel>>, <<t + 100>>),
      Access(<<ElevatedLevel>>, <<t + 400>>) }
\* access_data.get("writeAccessLevel", 0)
WriteLevel(a) == IF a.writeAccessLevel = <<>> THEN 0 ELSE a.writeAccessLevel[1]

\* generate-access-code: the accessCode of the answer, if it has one
Codes == {<<"code-A">>, <<"code-B">>, <<>>}

\* const.py: METRIC_NAMES, the first element of every METRIC_INFO entry and
\* four manual-mode names; of its 82 names the seven below that
\* FAST_POLLING_METRICS has too, and three of the others
METRIC_NAMES ==
    {"bf1_l_min", "powertotal", "inputcurrent1", "inputcurrent2",
     "inputcurrent3", "dhwpower", "heatingpower",
     "bt1", "bp1_pressure", "man_mode"}

\* const.py: FAST_POLLING_METRICS
FAST_POLLING_METRICS ==
    {"powertotal", "heatingpower", "dhwpower", "inputcurrent1",
     "inputcurrent2", "inputcurrent3", "bf1_l_min"}

\* values?...: {"values": {...}} or anything else; the server chooses the
\* names it answers with
MetricsBodies ==
    { [wrapped |-> TRUE, names |-> {"powertotal", "bt1"}],
      [wrapped |-> FALSE, names |-> {"powertotal"}] }
\* `metrics["values"] if isinstance(metrics, dict) and "values" in metrics
\* else metrics`
ExtractMetrics(m) ==
    [shape |-> IF m.wrapped THEN "values" ELSE "raw", names |-> m.names]

AlarmBodies == { [alarms |-> {"alarm-1"}] }
\* data["alarms"] = {"alarms": []}
DefaultAlarms == [alarms |-> {}]
\* the access level assumed when the fetch fails
DefaultAccess == Access(<<10>>, <<>>)

InventoryBodies == {"inventory-1"}

\* a command answer: no "response" key, or the names it denies
SettingNames == {"dhw_prioritytime", "op_mode"}
CommandBodies ==
    { [response |-> <<>>] } \cup
    { [response |-> <<d>>] : d \in {{}, {"dhw_prioritytime"}, {"use_adaptive"}} }

\* the one body of the other answers
PlainBody == "body"

(* ------------------------- transient-error test ------------------------ *)
\* `"Server error" in error_msg or "502" in error_msg or "503" in error_msg
\* or "500" in error_msg`
TransientMarkers == {"Server error", "502", "503", "500"}
IsTransient(text) == \E m \in TransientMarkers : m \in text

(* ------------------------------ snapshot ------------------------------- *)
\* a key that is absent is <<>>, a key with value v is <<v>>; the value of
\* an inventory key is the cache, itself <<>> (None) or <<body>>
EmptyData ==
    [status |-> <<>>, settings |-> <<>>, internal_metrics |-> <<>>,
     settings_inventory |-> <<>>, metrics_inventory |-> <<>>,
     alarms |-> <<>>, alarms_inventory |-> <<>>, access_level |-> <<>>]

NoInventories == [settings |-> <<>>, metrics |-> <<>>, alarms |-> <<>>]
NoInvLog == [first |-> NoInventories, again |-> {}, skipped |-> {}]
\* DataUpdateCoordinator.data before the first refresh
NoPublished == [k \in Kinds |-> <<>>]
NoSeen == [low |-> FALSE, elevation |-> "none", access |-> <<>>]

\* the renewal test of _update_data: expiresAt is set, the flag is on, the
\* level is elevated and the grant ends within the window
\* (as it would be if the flag were not part of the test)
NeedsRenewal_FlagIgnored(a, flag, t) ==
    /\ a.expiresAt # <<>>
    /\ WriteLevel(a) >= ElevatedLevel
    /\ 0 < a.expiresAt[1] - t
    /\ a.expiresAt[1] - t < RenewWindow
NeedsRenewal(a, flag, t) ==
    /\ a.expiresAt # <<>>
    /\ flag
    /\ WriteLevel(a) >= ElevatedLevel
    /\ 0 < a.expiresAt[1] - t
    /\ a.expiresAt[1] - t < RenewWindow

(* ------------------------------ commands ------------------------------- *)
\* values a caller passes to set_setting: text is the characters of a str,
\* n the number of an int
StrVal(chars) == [type |-> "str", text |-> chars, n |-> 0]
IntVal(k) == [type |-> "int", text |-> <<>>, n |-> k]
BoolVal(b) == [type |-> "bool", text |-> <<>>, n |-> IF b THEN 1 ELSE 0]
Values == { StrVal(<<"o", "n">>), StrVal(<<"6", "0">>), StrVal(<<"-", "5">>),
            StrVal(<<"-", "-", "5">>), StrVal(<<"-">>), IntVal(60) }
\* the values the entities send in the runs checked here
CommandValues == { StrVal(<<"o", "n">>), StrVal(<<"6", "0">>) }

Digits == {"0", "1", "2", "3", "4", "5", "6", "7", "8", "9"}
DigitValue(c) ==
    CASE c = "0" -> 0 [] c = "1" -> 1 [] c = "2" -> 2 [] c = "3" -> 3
      [] c = "4" -> 4 [] c = "5" -> 5 [] c = "6" -> 6 [] c = "7" -> 7
      [] c = "8" -> 8 [] c = "9" -> 9

RECURSIVE LStripMinus(_)
\* value.lstrip("-")
LStripMinus(cs) ==
    IF cs # <<>> /\ Head(cs) = "-" THEN LStripMinus(Tail(cs)) ELSE cs
\* str.isdigit(): not empty, digits only
IsDigit(cs) == cs # <<>> /\ \A i \in 1..Len(cs) : cs[i] \in Digits
RECURSIVE Magnitude(_)
Magnitude(cs) ==
    IF cs = <<>> THEN 0
    ELSE 10 * Magnitude(SubSeq(cs, 1, Len(cs) - 1)) + DigitValue(cs[Len(cs)])
\* int(value) accepts one optional sign before the digits
IntParses(cs) ==
    \/ IsDigit(cs)
    \/ (cs # <<>> /\ Head(cs) = "-" /\ IsDigit(Tail(cs)))
IntOf(cs) == IF Head(cs) = "-" THEN 0 - Magnitude(Tail(cs)) ELSE Magnitude(cs)

\* the conversion at the head of set_setting; a ValueError of int() is
\* swallowed and the value stays
\* (as it would be if the value were sent the way it was passed)
Coerce_AsPassed(v) == v
Coerce(v) ==
    IF v.type = "str" /\ IsDigit(LStripMinus(v.text)) /\ IntParses(v.text)
    THEN IntVal(IntOf(v.text))
    ELSE v

\* {"command": {"update_settings": {setting: value}}}
SetSettingPayload(setting, v) ==
    [command |-> "update_settings", settings |-> {<<setting, Coerce(v)>>}]

\* {"command": {"update_settings": settings}} of set_smartcontrol
Modes == {-1, 2}
\* -1 to disable, 0 = Eco, 1 = Balanced, 2 = Comfort
AllModes == {-1, 0, 1, 2}
\* (as it would be if the modes were written whenever they were passed)
SmartControlPayload_ModesAlways(sh, dhw) ==
    [command |-> "update_settings",
     settings |-> {<<"use_adaptive", BoolVal(sh # -1 /\ dhw # -1)>>,
                   <<"smart_sh_mode", IntVal(sh)>>,
                   <<"smart_dhw_mode", IntVal(dhw)>>}]
SmartControlPayload(sh, dhw) ==
    [command |-> "update_settings",
     settings |-> IF sh # -1 /\ dhw # -1
                  THEN {<<"use_adaptive", BoolVal(TRUE)>>,
                        <<"smart_sh_mode", IntVal(sh)>>,
                        <<"smart_dhw_mode", IntVal(dhw)>>}
                  ELSE {<<"use_adaptive", BoolVal(FALSE)>>}]

\* set_setting: response["response"].get(setting) == "permission denied"
SettingDenied(setting, body) ==
    body.response # <<>> /\ setting \in body.response[1]
\* set_smartcontrol: some value of response["response"] is "permission denied"
AnyDenied(body) == body.response # <<>> /\ body.response[1] # {}
\* `if self.elevate_access(device_id):` - None is falsy, an access dict truthy
ElevationSucceeded(e) == e.status = "returned" /\ e.result # <<>>

\* `args`: history, the arguments of the call: the value of set_setting,
\* the modes of set_smartcontrol, and for set_extra_hot_water its
\* arguments, the instant of the call and the host's offset from UTC
NoCmd ==
    [name |-> "none", setting |-> "none", args |-> <<>>, payload |-> <<>>,
     posts |-> <<>>, denied |-> <<>>, elevations |-> 0, response |-> <<>>]

(* --------------------------- one helper call --------------------------- *)
\* the get_access_level calls _update_data has made itself, after one
\* more call of API method `api`; the calls inside an elevate_access are
\* in elev.calls
NoCalls == [access |-> 0]
Logged(c, api) ==
    IF op \in {"normal", "fast"} /\ elev.status # "running"
       /\ api = "get_access_level"
    THEN [c EXCEPT !.access = @ + 1]
    ELSE c

\* The bookkeeping of one call of API method `api` that went as r: the
\* client's token state and the bound on failing calls.
Call(api, r) ==
    /\ r.err = NoErr \/ faults < MaxFaults
    /\ tokens' = r.tokens
    /\ token_expiry' = r.token_expiry
    /\ issueTime' = r.issueTime
    /\ last' = last
    /\ faults' = IF r.err = NoErr THEN faults ELSE faults + 1
    /\ calls' = Logged(calls, api)

Running == [status |-> "running", err |-> NoErr]
Returned == [status |-> "returned", err |-> NoErr]
Raised(e) == [status |-> "raised", err |-> e]
Idle == phase = "running" /\ outcome.status # "running"

(* ---------------------------- elevate_access --------------------------- *)
NoElev ==
    [status |-> "none", pc |-> "none", calls |-> <<>>, first |-> <<>>,
     code |-> <<>>, result |-> <<>>, err |-> NoErr, failed |-> FALSE]
BeginElevate == [NoElev EXCEPT !.status = "running", !.pc = "access"]

ElevReturn(e, res) == [e EXCEPT !.status = "returned", !.pc = "done",
                                !.result = res]
ElevRaise(e, err) == [e EXCEPT !.status = "raised", !.pc = "done",
                               !.err = err, !.failed = TRUE]
ElevFail(e) == ElevReturn([e EXCEPT !.failed = TRUE], <<>>)

\* the API method elevate_access calls at each position, its helper, the
\* access code in its URL
ElevApi(p) ==
    CASE p = "access" -> "get_access_level"
      [] p = "generate" -> "generate_access_code"
      [] p = "claim" -> "claim_grant"
      [] p = "approve" -> "approve_access"
      [] p = "confirm" -> "get_access_level"
ElevVerb(p) == IF p \in {"access", "confirm"} THEN "GET_INTERNAL" ELSE "POST"
ClaimCode(e) == e.code
\* (as it would be if approve were sent without the code)
ApproveCode_None(e) == <<>>
ApproveCode(e) == e.code
ElevArg(e) ==
    CASE e.pc = "claim" -> ClaimCode(e)
      [] e.pc = "approve" -> ApproveCode(e)
      [] OTHER -> <<>>
\* claim-grant has no device id in its path
ElevUrl(p, dev) == IF p = "claim" THEN {} ELSE UrlText(dev)

\* `if write_level >= 20: return access_data`
\* (as it would be with `>` for `>=`)
AlreadyElevated_Strict(a) == WriteLevel(a) > ElevatedLevel
AlreadyElevated(a) == WriteLevel(a) >= ElevatedLevel

\* elevate_access after the call at e.pc went as err (NoErr: it answered
\* with access / code).  e.calls is history: each call with the code in its
\* URL, whether it succeeded and the access level it answered with.
\* The two get_access_level calls are not guarded;
\* _generate_access_code, _claim_grant and _approve_access turn every
\* QvantumApiError into None / False.
ElevateNext(e, err, access, code) ==
    LET e1 == [e EXCEPT !.calls =
                 Append(@, [api |-> ElevApi(e.pc), arg |-> ElevArg(e),
                            ok |-> err = NoErr,
                            access |-> IF err = NoErr
                                          /\ e.pc \in {"access", "confirm"}
                                       THEN <<access>> ELSE <<>>])]
    IN CASE e.pc = "access" ->
              IF err # NoErr THEN ElevRaise(e1, err)
              ELSE IF AlreadyElevated(access)
              THEN ElevReturn([e1 EXCEPT !.first = <<access>>], <<access>>)
              ELSE [e1 EXCEPT !.first = <<access>>, !.pc = "generate"]
         [] e.pc = "generate" ->
              IF err # NoErr \/ code = <<>> THEN ElevFail(e1)
              ELSE [e1 EXCEPT !.code = code, !.pc = "claim"]
         [] e.pc = "claim" ->
              IF err # NoErr THEN ElevFail(e1)
              ELSE [e1 EXCEPT !.pc = "approve"]
         [] e.pc = "approve" ->
              IF err # NoErr THEN ElevFail(e1)
              ELSE [e1 EXCEPT !.pc = "confirm"]
         [] e.pc = "confirm" ->
              IF err # NoErr THEN ElevRaise(e1, err)
              ELSE ElevReturn(e1, <<access>>)

\* what the server can put in the answer of the call at position p
ElevAccessChoices(p, t) ==
    IF p \in {"access", "confirm"} THEN AccessBodies(t) ELSE {DefaultAccess}
ElevCodeChoices(p) == IF p = "generate" THEN Codes ELSE {<<>>}

\* one API call of the elevate_access that is running
ElevateStep ==
    /\ elev.status = "running"
    /\ \E r \in Responses(ElevVerb(elev.pc), ElevUrl(elev.pc, device_id)),
          access \in ElevAccessChoices(elev.pc, now),
          code \in ElevCodeChoices(elev.pc) :
            /\ Call(ElevApi(elev.pc), r)
            /\ elev' = ElevateNext(elev, r.err, access, code)
    /\ UNCHANGED <<now, phase, device_id, saving, refresh_requested, threads,
                   grants, coordVars, op, pc, outcome, data, metricsOut, seen,
                   failed, cmd>>

\* no elevate_access is running: the caller's next statement may run
ElevDone == elev.status # "running"

\* the callers of the one QvantumApi that async_setup_entry hands to both
\* coordinators and, through them, to the entities: each runs its API calls
\* as a job of the executor's thread pool
Threads == {"fast", "normal", "command"}

NoJob == [pc |-> "idle", got |-> <<>>]
NoThreads == [t \in Threads |-> NoJob]
NoGrants == [issued |-> 0, obtained |-> 0, held |-> 0, expiryOf |-> 0]
InFlight(j) == j.pc \notin {"idle", "returned", "raised"}

(* ------------------------------- setup --------------------------------- *)
\* one async_set_auto_elevate call per device: where it stands, the value it
\* was called with (<<>> before the first call) and the dict it loaded
NoSaving ==
    [d \in DeviceIds |-> [pc |-> "idle", enabled |-> <<>>, data |-> <<>>]]

Init ==
    /\ now = 0
    /\ phase = "new"
    /\ device_id \in DeviceIds
    /\ tokens = <<>>
    /\ token_expiry = <<>>
    /\ issueTime = 0
    /\ last = NoHist
    /\ auto_elevate_enabled = [k \in Kinds |-> FALSE]
    /\ store = [d \in DeviceIds |-> <<>>]
    /\ inv = NoInventories
    /\ invLog = NoInvLog
    /\ published = NoPublished
    /\ op = "none"
    /\ pc = "none"
    /\ outcome = [status |-> "none", err |-> NoErr]
    /\ faults = 0
    /\ elev = NoElev
    /\ data = EmptyData
    /\ metricsOut = NoOut
    /\ seen = NoSeen
    /\ failed = {}
    /\ cmd = NoCmd
    /\ threads = NoThreads
    /\ grants = NoGrants
    /\ calls = NoCalls
    /\ refresh_requested = FALSE
    /\ saving = NoSaving

\* async_setup_entry, `await hass.async_add_executor_job(api.authenticate)`:
\* only AuthenticationError becomes ConfigEntryNotReady
SetupAuthenticate ==
    /\ phase = "new"
    /\ \E sOut \in AuthOutcomes :
         LET a == Authenticate(tokens, sOut)
         IN /\ tokens' = a.tokens
            /\ issueTime' = IF a.err = NoErr THEN now ELSE issueTime
            /\ phase' = IF a.err = NoErr THEN "authed"
                        ELSE IF a.err.cls = "AuthenticationError"
                        THEN "not_ready"
                        ELSE "setup_error"
    /\ UNCHANGED <<now, device_id, saving, refresh_requested, calls, threads,
                   grants, token_expiry, last, coordVars, opVars>>

\* async_load_auto_elevate_state: the stored flag of the device, else False
LoadedFlag(st, dev) == IF st[dev] = <<>> THEN FALSE ELSE st[dev][1]

\* async_setup_entry, `devices = ... api.get_devices`: any QvantumApiError
\* becomes ConfigEntryNotReady, an empty device list ends setup; otherwise
\* the two coordinators are built, the flag is loaded into the normal one
\* and copied to the fast one
SetupGetDevices ==
    /\ phase = "authed"
    /\ \E r \in Responses("GET", {}), found \in BOOLEAN :
            /\ tokens' = r.tokens
            /\ token_expiry' = r.token_expiry
            /\ issueTime' = r.issueTime
            /\ last' = r.hist
            /\ phase' = IF r.err # NoErr THEN "not_ready"
                        ELSE IF found THEN "running" ELSE "no_devices"
            /\ auto_elevate_enabled' =
                 IF r.err = NoErr /\ found
                 THEN [k \in Kinds |-> LoadedFlag(store, device_id)]
                 ELSE auto_elevate_enabled
    /\ inv' = NoInventories
    /\ invLog' = NoInvLog
    /\ published' = NoPublished
    /\ UNCHANGED <<now, device_id, saving, refresh_requested, calls, threads,
                   grants, store, opVars>>

\* the platform sets a failed entry up again later, and a running one on a
\* reload or restart, each time with a new QvantumApi and, once setup gets
\* that far, new coordinators; what an earlier operation left is gone
SetupRetry ==
    /\ \/ phase \in {"not_ready", "setup_error", "no_devices"}
       \/ phase = "running" /\ outcome.status # "running"
    /\ phase' = "new"
    /\ tokens' = <<>>
    /\ token_expiry' = <<>>
    /\ issueTime' = 0
    /\ last' = NoHist
    /\ op' = "none"
    /\ pc' = "none"
    /\ outcome' = [status |-> "none", err |-> NoErr]
    /\ faults' = 0
    /\ elev' = NoElev
    /\ data' = EmptyData
    /\ metricsOut' = NoOut
    /\ seen' = NoSeen
    /\ failed' = {}
    /\ cmd' = NoCmd
    /\ \A t \in Threads : ~InFlight(threads[t])
    /\ threads' = NoThreads
    /\ grants' = NoGrants
    /\ calls' = NoCalls
    /\ refresh_requested' = FALSE
    /\ \A d \in DeviceIds : saving[d].pc = "idle"
    /\ saving' = NoSaving
    /\ UNCHANGED <<now, device_id, coordVars>>

\* datetime.now() advances between operations
Tick ==
    /\ \E d \in TickSteps : now + d <= MaxTime /\ now' = now + d
    /\ UNCHANGED <<phase, device_id, saving, refresh_requested, calls,
                   threads, grants, tokens, token_expiry, issueTime, last,
                   coordVars, opVars>>

\* a client operation that is one request through the helper `verb`
\* (get_status, get_settings, get_alarms, set_extra_hot_water, ...)
ApiCall(verb) ==
    /\ phase = "running"
    /\ \E r \in Responses(verb, UrlText(device_id)) :
            /\ tokens' = r.tokens
            /\ token_expiry' = r.token_expiry
            /\ issueTime' = r.issueTime
            /\ last' = r.hist
    /\ UNCHANGED <<now, phase, device_id, saving, refresh_requested, calls,
                   threads, grants, coordVars, opVars>>

(* ---------------------- starting an operation -------------------------- *)
Begin(name, position) ==
    /\ Idle
    /\ op' = name
    /\ pc' = position
    /\ faults' = faults
    /\ data' = EmptyData
    /\ metricsOut' = NoOut
    /\ seen' = NoSeen
    /\ failed' = {}
    /\ calls' = NoCalls
    /\ refresh_requested' = FALSE

\* `data = await self._store.async_load() or {}`, `data[device_id] =
\* enabled`, `await self._store.async_save(data)`
\* (as it would be if the saved dict were built anew, not loaded)
SaveFlag_Overwrite(st, dev, b) ==
    [d \in DOMAIN st |-> IF d = dev THEN <<b>> ELSE <<>>]
SaveFlag(st, dev, b) == [st EXCEPT ![dev] = <<b>>]

\* async_set_auto_elevate(enabled): the flag of the coordinator the switch
\* belongs to, then load - set own key - save
SetAutoElevate(b) ==
    /\ auto_elevate_enabled' = [auto_elevate_enabled EXCEPT !["normal"] = b]
    /\ store' = SaveFlag(store, device_id, b)

\* the switch of another device of the account is turned: the normal
\* coordinator of that device runs async_set_auto_elevate on the same Store
OtherDeviceToggle(d, b) ==
    /\ d # device_id
    /\ Begin("toggle_other", "done")
    /\ store' = SaveFlag(store, d, b)
    /\ outcome' = Returned
    /\ elev' = NoElev
    /\ cmd' = NoCmd
    /\ UNCHANGED <<now, phase, device_id, saving, threads, grants, tokVars,
                   last, auto_elevate_enabled, inv, invLog, published>>

(* --------------------- elevate button, auto-elevate switch ------------- *)
\* QvantumElevateAccessButton.async_press
ButtonPress ==
    /\ Begin("button", "after_elevate")
    /\ outcome' = Running
    /\ elev' = BeginElevate
    /\ cmd' = NoCmd
    /\ UNCHANGED <<now, phase, device_id, saving, threads, grants, tokVars,
                   last, coordVars>>

\* ... after elevate_access: result.get(...) on None raises AttributeError,
\* which `except QvantumApiError` does not catch
ButtonDone ==
    /\ op = "button" /\ pc = "after_elevate" /\ outcome.status = "running"
    /\ ElevDone
    /\ pc' = "done"
    /\ outcome' = IF elev.status = "returned" /\ elev.result = <<>>
                  THEN Raised(Err("AttributeError", {}))
                  ELSE Returned
    /\ refresh_requested' = ElevationSucceeded(elev)
    /\ UNCHANGED <<now, phase, device_id, saving, calls, threads, grants,
                   tokVars, last, coordVars, op, faults, elev, data,
                   metricsOut, seen, failed, cmd>>

\* QvantumAutoElevateAccessSwitch.async_turn_on
TurnOn ==
    /\ Begin("turn_on", "after_elevate")
    /\ outcome' = Running
    /\ SetAutoElevate(TRUE)
    /\ elev' = BeginElevate
    /\ cmd' = NoCmd
    /\ UNCHANGED <<now, phase, device_id, saving, threads, grants, tokVars,
                   last, inv, invLog, published>>

\* async_turn_on after elevate_access: async_request_refresh is the last
\* statement of the try, the except clause logs
\* (as it would be if the refresh were requested after the try)
RefreshAfter_Always(e) == TRUE
RefreshAfter(e) == e.status # "raised"

TurnOnDone ==
    /\ op = "turn_on" /\ pc = "after_elevate" /\ outcome.status = "running"
    /\ ElevDone
    /\ pc' = "done"
    /\ outcome' = Returned
    /\ refresh_requested' = RefreshAfter(elev)
    /\ UNCHANGED <<now, phase, device_id, saving, calls, threads, grants,
                   tokVars, last, coordVars, op, faults, elev, data,
                   metricsOut, seen, failed, cmd>>

\* QvantumAutoElevateAccessSwitch.async_turn_off
TurnOff ==
    /\ Begin("turn_off", "done")
    /\ SetAutoElevate(FALSE)
    /\ outcome' = Returned
    /\ elev' = NoElev
    /\ cmd' = NoCmd
    /\ UNCHANGED <<now, phase, device_id, saving, threads, grants, tokVars,
                   last, inv, invLog, published>>

(* ---------------------- set_setting, set_smartcontrol ------------------ *)
NewCmd(name, setting, payload) ==
    [NoCmd EXCEPT !.name = name, !.setting = setting, !.payload = <<payload>>]

\* set_setting(device_id, setting, value) up to its first POST
SetSetting(setting, value) ==
    /\ Begin("set_setting", "post")
    /\ outcome' = Running
    /\ cmd' = [NewCmd("set_setting", setting,
                      SetSettingPayload(setting, value))
                 EXCEPT !.args = <<[value |-> value]>>]
    /\ elev' = NoElev
    /\ UNCHANGED <<now, phase, device_id, saving, threads, grants, tokVars,
                   last, coordVars>>

\* set_smartcontrol(device_id, sh, dhw) up to its first POST
SetSmartControl(sh, dhw) ==
    /\ Begin("set_smartcontrol", "post")
    /\ outcome' = Running
    /\ cmd' = [NewCmd("set_smartcontrol", "none",
                      SmartControlPayload(sh, dhw))
                 EXCEPT !.args = <<[sh |-> sh, dhw |-> dhw]>>]
    /\ elev' = NoElev
    /\ UNCHANGED <<now, phase, device_id, saving, threads, grants, tokVars,
                   last, coordVars>>

\* the permission-denied test of the running command
CommandDenied(c, body) ==
    IF c.name = "set_setting" THEN SettingDenied(c.setting, body)
    ELSE AnyDenied(body)

\* the payload of the second POST: the same `payload` object
RetryPayload(c) == c.payload[1]
\* `if self.elevate_access(device_id):` decides on the second POST
\* (as it would be if the answer of elevate_access were not tested)
ShouldRetry_Always(e) == TRUE
ShouldRetry(e) == ElevationSucceeded(e)

Posted(c, r, payload) ==
    IF r.sent THEN [c EXCEPT !.posts = Append(@, payload)] ELSE c

\* the first `response = self._post_request(path, payload)` and the test
\* of its answer
CommandPost ==
    /\ op \in {"set_setting", "set_smartcontrol"} /\ pc = "post"
    /\ outcome.status = "running"
    /\ \E r \in Responses("POST", UrlText(device_id)), body \in CommandBodies :
         LET c == Posted(cmd, r, cmd.payload[1])
         IN /\ Call("command", r)
            /\ IF r.err # NoErr
               THEN /\ cmd' = c
                    /\ outcome' = Raised(r.err)
                    /\ pc' = "done"
                    /\ elev' = elev
               ELSE IF CommandDenied(cmd, body)
               THEN /\ cmd' = [c EXCEPT !.response = <<body>>,
                                        !.denied = Append(@, TRUE),
                                        !.elevations = @ + 1]
                    /\ outcome' = outcome
                    /\ pc' = "after_elevate"
                    /\ elev' = BeginElevate
               ELSE /\ cmd' = [c EXCEPT !.response = <<body>>,
                                        !.denied = Append(@, FALSE)]
                    /\ outcome' = Returned
                    /\ pc' = "done"
                    /\ elev' = elev
    /\ UNCHANGED <<now, phase, device_id, saving, refresh_requested, threads,
                   grants, coordVars, op, data, metricsOut, seen, failed>>

\* elevate_access answered with an access level: the one retry
CommandRetry ==
    /\ op \in {"set_setting", "set_smartcontrol"} /\ pc = "after_elevate"
    /\ outcome.status = "running"
    /\ ElevDone /\ elev.status = "returned" /\ ShouldRetry(elev)
    /\ \E r \in Responses("POST", UrlText(device_id)), body \in CommandBodies :
         LET c == Posted(cmd, r, RetryPayload(cmd))
         IN /\ Call("command", r)
            /\ cmd' = IF r.err # NoErr THEN c
                      ELSE [c EXCEPT !.response = <<body>>,
                                     !.denied = Append(@, CommandDenied(cmd, body))]
            /\ outcome' = IF r.err # NoErr THEN Raised(r.err) ELSE Returned
    /\ pc' = "done"
    /\ UNCHANGED <<now, phase, device_id, saving, refresh_requested, threads,
                   grants, coordVars, op, elev, data, metricsOut, seen,
                   failed>>

\* elevate_access answered None (the first response is returned) or raised
\* (the error leaves set_setting / set_smartcontrol)
CommandNoRetry ==
    /\ op \in {"set_setting", "set_smartcontrol"} /\ pc = "after_elevate"
    /\ outcome.status = "running"
    /\ ElevDone /\ ~(elev.status = "returned" /\ ShouldRetry(elev))
    /\ outcome' = IF elev.status = "raised" THEN Raised(elev.err) ELSE Returned
    /\ pc' = "done"
    /\ UNCHANGED <<now, phase, device_id, saving, refresh_requested, calls,
                   threads, grants, tokVars, last, coordVars, op, faults,
                   elev, data, metricsOut, seen, failed, cmd>>

(* -------------------------- set_extra_hot_water ------------------------ *)
\* the hours the entities and the services pass; 0 cancels
Hours == {0, 1, 2}
\* the offset of the host's local time from UTC, in hours
Offsets == {0, 2}
\* timedelta(hours=1), in the seconds the clock counts
SecondsPerHour == 3600

\* datetime.now(): the naive local time of the host at instant t
LocalNow(t, off) == t + off * SecondsPerHour
\* strftime("%Y-%m-%dT%H:%M:%S.000Z"): the fields of the naive time as
\* they are, then the literal letter Z
Strftime(naive) == [fields |-> naive, suffix |-> "Z"]
\* the instant a timestamp denotes to its reader: a trailing Z says the
\* fields are UTC
Instant(stamp) == IF stamp.suffix = "Z" THEN <<stamp.fields>> ELSE <<>>

\* {"command": {"set_additional_hot_water": {stopTime, indefinite, cancel}}}
\* (as it would be if hours = 0 alone chose the cancel branch)
ExtraHotWaterPayload_ZeroCancels(hours, indefinite, t, off) ==
    [command |-> "set_additional_hot_water",
     stopTime |-> IF hours = 0 \/ indefinite THEN <<>>
                  ELSE <<Strftime(LocalNow(t, off) + hours * SecondsPerHour)>>,
     indefinite |-> hours # 0 /\ indefinite,
     cancel |-> hours = 0]
ExtraHotWaterPayload(hours, indefinite, t, off) ==
    IF hours = 0 /\ ~indefinite
    THEN [command |-> "set_additional_hot_water", stopTime |-> <<>>,
          indefinite |-> FALSE, cancel |-> TRUE]
    ELSE IF indefinite
    THEN [command |-> "set_additional_hot_water", stopTime |-> <<>>,
          indefinite |-> TRUE, cancel |-> FALSE]
    ELSE [command |-> "set_additional_hot_water",
          stopTime |->
              <<Strftime(LocalNow(t, off) + hours * SecondsPerHour)>>,
          indefinite |-> FALSE, cancel |-> FALSE]

\* set_extra_hot_water(device_id, hours, indefinite) up to its POST
SetExtraHotWater(hours, indefinite) ==
    /\ Begin("set_extra_hot_water", "post")
    /\ outcome' = Running
    /\ \E off \in Offsets :
         cmd' = [NewCmd("set_extra_hot_water", "none",
                        ExtraHotWaterPayload(hours, indefinite, now, off))
                   EXCEPT !.args = <<[hours |-> hours,
                                      indefinite |-> indefinite,
                                      at |-> now, offset |-> off]>>]
    /\ elev' = NoElev
    /\ UNCHANGED <<now, phase, device_id, saving, threads, grants, tokVars,
                   last, coordVars>>

\* set_extra_hot_water has no test of the answer: no answer starts
\* elevate_access
\* (as it would be with the test set_smartcontrol makes)
ExtraHotWaterRecovers_Denied(body) == AnyDenied(body)
ExtraHotWaterRecovers(body) == FALSE

\* `return self._post_request(path, wrapped_payload)`
ExtraHotWaterPost ==
    /\ op = "set_extra_hot_water" /\ pc = "post"
    /\ outcome.status = "running"
    /\ \E r \in Responses("POST", UrlText(device_id)), body \in CommandBodies :
         LET c == Posted(cmd, r, cmd.payload[1])
             recover == r.err = NoErr /\ ExtraHotWaterRecovers(body)
         IN /\ Call("command", r)
            /\ cmd' = IF r.err # NoErr THEN c
                      ELSE [c EXCEPT !.response = <<body>>]
            /\ outcome' = IF r.err # NoErr THEN Raised(r.err)
                          ELSE IF recover THEN outcome ELSE Returned
            /\ pc' = IF recover THEN "after_elevate" ELSE "done"
            /\ elev' = IF recover THEN BeginElevate ELSE elev
    /\ UNCHANGED <<now, phase, device_id, saving, refresh_requested, threads,
                   grants, coordVars, op, data, metricsOut, seen, failed>>

(* --------------------------- _update_data ------------------------------ *)
\* an error that `except QvantumApiError` does not catch leaves _update_data
Escapes(e) == e # NoErr /\ ~IsQvantumApiError(e)

\* how a cycle goes on after a guarded step whose call went as e
AfterStep(e, out, next) ==
    IF Escapes(e) THEN [outcome |-> Raised(e), pc |-> "done"]
    ELSE [outcome |-> out, pc |-> next]

\* the fetches of the cycle that raised, after the fetch `name` went as e
Failed(f, name, e) == IF e = NoErr THEN f ELSE f \cup {name}

(* ------------------------- _update_data, fast -------------------------- *)
\* what _update_data does with the error of the internal-metrics fetch:
\* a transient one becomes UpdateFailed, any other is logged
MetricsFailure(e) ==
    IF IsTransient(e.text) THEN Raised(Err("UpdateFailed", e.text))
    ELSE Running

\* a cycle of the fast coordinator starts
StartFast ==
    /\ Begin("fast", "metrics")
    /\ outcome' = Running
    /\ elev' = NoElev
    /\ cmd' = NoCmd
    /\ UNCHANGED <<now, phase, device_id, saving, threads, grants, tokVars,
                   last, coordVars>>

\* get_internal_metrics(device_id, FAST_POLLING_METRICS) and `return data`
FastMetrics ==
    /\ op = "fast" /\ pc = "metrics" /\ outcome.status = "running"
    /\ \E r \in Responses("GET_INTERNAL", UrlText(device_id)),
          body \in MetricsBodies :
            /\ Call("get_internal_metrics", r)
            /\ metricsOut' = r.hist.sendOut
            /\ failed' = Failed(failed, "metrics", r.err)
            /\ data' = IF r.err = NoErr
                       THEN [data EXCEPT
                               !.internal_metrics = <<ExtractMetrics(body)>>]
                       ELSE data
            /\ outcome' = IF r.err = NoErr THEN Returned
                          ELSE IF Escapes(r.err) THEN Raised(r.err)
                          ELSE IF MetricsFailure(r.err) = Running THEN Returned
                          ELSE MetricsFailure(r.err)
    /\ pc' = "done"
    /\ UNCHANGED <<now, phase, device_id, saving, refresh_requested, threads,
                   grants, coordVars, op, elev, seen, cmd>>

(* ------------------------ _update_data, normal ------------------------- *)
\* `if current_access.get("writeAccessLevel", 0) < 20`
\* (as it would be if the check never asked for the elevation)
PreemptiveNeeded_Never(a) == FALSE
PreemptiveNeeded(a) == WriteLevel(a) < ElevatedLevel

\* how an elevate_access ended, for the history
ElevOutcome(e) ==
    IF e.status = "raised" THEN "raised"
    ELSE IF e.status = "returned"
    THEN (IF e.result = <<>> THEN "null" ELSE "returned")
    ELSE "none"

\* a cycle of the normal coordinator starts; `if self.auto_elevate_enabled`
StartNormal ==
    /\ Begin("normal",
             IF auto_elevate_enabled["normal"] THEN "pre" ELSE "status")
    /\ outcome' = Running
    /\ elev' = NoElev
    /\ cmd' = NoCmd
    /\ UNCHANGED <<now, phase, device_id, saving, threads, grants, tokVars,
                   last, coordVars>>

\* the access-level check before the data fetches; a level below 20 starts
\* elevate_access; a QvantumApiError of the check is caught
NormalPre ==
    /\ op = "normal" /\ pc = "pre" /\ outcome.status = "running"
    /\ \E r \in Responses("GET_INTERNAL", UrlText(device_id)),
          access \in AccessBodies(now) :
         LET start == r.err = NoErr /\ PreemptiveNeeded(access)
             after == AfterStep(r.err, outcome,
                                IF start THEN "after_pre" ELSE "status")
         IN /\ Call("get_access_level", r)
            /\ elev' = IF start THEN BeginElevate ELSE NoElev
            /\ seen' = [seen EXCEPT !.low = r.err = NoErr
                                      /\ WriteLevel(access) < ElevatedLevel]
            /\ failed' = Failed(failed, "pre_access", r.err)
            /\ outcome' = after.outcome
            /\ pc' = after.pc
    /\ UNCHANGED <<now, phase, device_id, saving, refresh_requested, threads,
                   grants, coordVars, op, data, metricsOut, cmd>>

\* the except clauses around the elevate_access of a cycle only log: the
\* flags stay
\* (as it would be if a failed elevation switched auto-elevate off)
FlagAfterElevation_OffOnFailure(flags, e) ==
    IF ElevationSucceeded(e) THEN flags ELSE [flags EXCEPT !["normal"] = FALSE]
FlagAfterElevation(flags, e) == flags

\* after the elevate_access of the check: its answer is not used, its
\* QvantumApiError is caught
NormalAfterPre ==
    /\ op = "normal" /\ pc = "after_pre" /\ outcome.status = "running"
    /\ ElevDone
    /\ LET after == AfterStep(elev.err, outcome, "status")
       IN /\ outcome' = after.outcome
          /\ pc' = after.pc
    /\ seen' = [seen EXCEPT !.elevation = ElevOutcome(elev)]
    /\ elev' = NoElev
    /\ auto_elevate_enabled' =
         FlagAfterElevation(auto_elevate_enabled, elev)
    /\ UNCHANGED <<now, phase, device_id, saving, refresh_requested, calls,
                   threads, grants, tokVars, last, store, inv, invLog,
                   published, op, faults, data, metricsOut, failed, cmd>>

\* get_status: optional, an error leaves the key out
NormalStatus ==
    /\ op = "normal" /\ pc = "status" /\ outcome.status = "running"
    /\ \E r \in Responses("GET", UrlText(device_id)) :
         LET after == AfterStep(r.err, outcome, "settings")
         IN /\ Call("get_status", r)
            /\ data' = IF r.err = NoErr
                       THEN [data EXCEPT !.status = <<PlainBody>>] ELSE data
            /\ failed' = Failed(failed, "status", r.err)
            /\ outcome' = after.outcome
            /\ pc' = after.pc
    /\ UNCHANGED <<now, phase, device_id, saving, refresh_requested, threads,
                   grants, coordVars, op, elev, metricsOut, seen, cmd>>

\* get_settings: optional, an error leaves the key out
NormalSettings ==
    /\ op = "normal" /\ pc = "settings" /\ outcome.status = "running"
    /\ \E r \in Responses("GET", UrlText(device_id)) :
         LET after == AfterStep(r.err, outcome, "metrics")
         IN /\ Call("get_settings", r)
            /\ data' = IF r.err = NoErr
                       THEN [data EXCEPT !.settings = <<PlainBody>>] ELSE data
            /\ failed' = Failed(failed, "settings", r.err)
            /\ outcome' = after.outcome
            /\ pc' = after.pc
    /\ UNCHANGED <<now, phase, device_id, saving, refresh_requested, threads,
                   grants, coordVars, op, elev, metricsOut, seen, cmd>>

\* get_internal_metrics(device_id, METRIC_NAMES)
NormalMetrics ==
    /\ op = "normal" /\ pc = "metrics" /\ outcome.status = "running"
    /\ \E r \in Responses("GET_INTERNAL", UrlText(device_id)),
          body \in MetricsBodies :
         LET out == IF r.err = NoErr THEN outcome ELSE MetricsFailure(r.err)
             after == AfterStep(r.err, out,
                                IF out = Running THEN "inv_settings"
                                ELSE "done")
         IN /\ Call("get_internal_metrics", r)
            /\ metricsOut' = r.hist.sendOut
            /\ failed' = Failed(failed, "metrics", r.err)
            /\ data' = IF r.err = NoErr
                       THEN [data EXCEPT
                               !.internal_metrics = <<ExtractMetrics(body)>>]
                       ELSE data
            /\ outcome' = after.outcome
            /\ pc' = after.pc
    /\ UNCHANGED <<now, phase, device_id, saving, refresh_requested, threads,
                   grants, coordVars, op, elev, seen, cmd>>

\* the three cached inventories, in the order _update_data takes them
InvKey(which) ==
    CASE which = "settings" -> "settings_inventory"
      [] which = "metrics" -> "metrics_inventory"
      [] which = "alarms" -> "alarms_inventory"
InvApi(which) ==
    CASE which = "settings" -> "get_settings_inventory"
      [] which = "metrics" -> "get_metrics_inventory"
      [] which = "alarms" -> "get_alarms_inventory"
\* (as it would be if the alarm list were fetched again after its
\* inventory)
InvNext_Again(which) ==
    CASE which = "settings" -> "inv_metrics"
      [] which = "metrics" -> "alarms"
      [] which = "alarms" -> "alarms"
InvNext(which) ==
    CASE which = "settings" -> "inv_metrics"
      [] which = "metrics" -> "alarms"
      [] which = "alarms" -> "access"
InvPc(which) ==
    CASE which = "settings" -> "inv_settings"
      [] which = "metrics" -> "inv_metrics"
      [] which = "alarms" -> "inv_alarms"

\* `if self._x_inventory is None:`
\* (as it would be if the test were left out)
ShouldFetch_Always(cache) == TRUE
ShouldFetch(cache) == cache = <<>>

\* `self._x_inventory = None` of the except clause
\* (as it would be if the clause stored an empty inventory)
InventoryAfterFailure_Empty == <<"empty">>
InventoryAfterFailure == <<>>

\* `if self._x_inventory is None:` fetch it, an error leaves None; then
\* data["x_inventory"] = self._x_inventory
NormalInventoryFetch(which) ==
    /\ op = "normal" /\ pc = InvPc(which) /\ outcome.status = "running"
    /\ ShouldFetch(inv[which])
    /\ \E r \in Responses("GET", UrlText(device_id)),
          body \in InventoryBodies :
         LET cache == IF r.err = NoErr THEN <<body>>
                      ELSE InventoryAfterFailure
             after == AfterStep(r.err, outcome, InvNext(which))
         IN /\ Call(InvApi(which), r)
            /\ inv' = [inv EXCEPT ![which] = cache]
            /\ invLog' = [invLog EXCEPT
                 !.first[which] = IF @ = <<>> /\ r.err = NoErr
                                  THEN <<body>> ELSE @,
                 !.again = IF invLog.first[which] # <<>>
                           THEN @ \cup {which} ELSE @]
            /\ data' = [data EXCEPT ![InvKey(which)] = <<cache>>]
            /\ failed' = Failed(failed, InvKey(which), r.err)
            /\ outcome' = after.outcome
            /\ pc' = after.pc
    /\ UNCHANGED <<now, phase, device_id, saving, refresh_requested, threads,
                   grants, auto_elevate_enabled, store, published, op, elev,
                   metricsOut, seen, cmd>>

\* the inventory is cached: no request
NormalInventoryCached(which) ==
    /\ op = "normal" /\ pc = InvPc(which) /\ outcome.status = "running"
    /\ ~ShouldFetch(inv[which])
    /\ invLog' = [invLog EXCEPT
                    !.skipped = IF inv[which] = <<>>
                                THEN @ \cup {which} ELSE @]
    /\ data' = [data EXCEPT ![InvKey(which)] = <<inv[which]>>]
    /\ pc' = InvNext(which)
    /\ UNCHANGED <<now, phase, device_id, saving, refresh_requested, calls,
                   threads, grants, tokVars, last, auto_elevate_enabled,
                   store, inv, published, op, outcome, faults, elev,
                   metricsOut, seen, failed, cmd>>

\* the except clause of the alarms fetch: data["alarms"] = {"alarms": []}
\* (as it would be if the clause only logged)
AlarmsOnFailure_Omit(d) == d
AlarmsOnFailure(d) == [d EXCEPT !.alarms = <<DefaultAlarms>>]

\* get_alarms: an error puts the empty alarm list
NormalAlarms ==
    /\ op = "normal" /\ pc = "alarms" /\ outcome.status = "running"
    /\ \E r \in Responses("GET", UrlText(device_id)), body \in AlarmBodies :
         LET after == AfterStep(r.err, outcome, "inv_alarms")
         IN /\ Call("get_alarms", r)
            /\ data' = IF r.err = NoErr
                       THEN [data EXCEPT !.alarms = <<body>>]
                       ELSE AlarmsOnFailure(data)
            /\ failed' = Failed(failed, "alarms", r.err)
            /\ outcome' = after.outcome
            /\ pc' = after.pc
    /\ UNCHANGED <<now, phase, device_id, saving, refresh_requested, threads,
                   grants, coordVars, op, elev, metricsOut, seen, cmd>>

\* the except clause of the access-level fetch: the default access level
\* (as it would be if the clause only logged)
AccessOnFailure_Omit(d) == d
AccessOnFailure(d) == [d EXCEPT !.access_level = <<DefaultAccess>>]

\* get_access_level at the end of the cycle: an error puts the default; a
\* grant about to end starts the renewal
NormalAccess ==
    /\ op = "normal" /\ pc = "access" /\ outcome.status = "running"
    /\ \E r \in Responses("GET_INTERNAL", UrlText(device_id)),
          access \in AccessBodies(now) :
         LET renew == r.err = NoErr
                      /\ NeedsRenewal(access, auto_elevate_enabled["normal"],
                                      now)
             after == AfterStep(r.err, IF renew THEN outcome ELSE Returned,
                                IF renew THEN "after_renew" ELSE "done")
         IN /\ Call("get_access_level", r)
            /\ data' = IF r.err = NoErr
                       THEN [data EXCEPT !.access_level = <<access>>]
                       ELSE AccessOnFailure(data)
            /\ seen' = [seen EXCEPT !.access = IF r.err = NoErr
                                                THEN <<access>> ELSE <<>>]
            /\ failed' = Failed(failed, "access", r.err)
            /\ elev' = IF renew THEN BeginElevate ELSE elev
            /\ outcome' = after.outcome
            /\ pc' = after.pc
    /\ UNCHANGED <<now, phase, device_id, saving, refresh_requested, threads,
                   grants, coordVars, op, metricsOut, cmd>>

\* after the renewing elevate_access: its answer, when it has one, replaces
\* the access level; its QvantumApiError is logged; `return data`
NormalAfterRenew ==
    /\ op = "normal" /\ pc = "after_renew" /\ outcome.status = "running"
    /\ ElevDone
    /\ data' = IF ElevationSucceeded(elev)
               THEN [data EXCEPT !.access_level = elev.result] ELSE data
    /\ outcome' = AfterStep(elev.err, Returned, "done").outcome
    /\ pc' = "done"
    /\ auto_elevate_enabled' =
         FlagAfterElevation(auto_elevate_enabled, elev)
    /\ UNCHANGED <<now, phase, device_id, saving, refresh_requested, calls,
                   threads, grants, tokVars, last, store, inv, invLog,
                   published, op, faults, elev, metricsOut, seen, failed,
                   cmd>>

(* ------------------------------ publishing ----------------------------- *)
\* DataUpdateCoordinator, the base class: the snapshot _async_update_data
\* returns becomes coordinator.data; when it raises, coordinator.data stays
\* (as it would be if the snapshot were handed over on an error as well)
Published_Always(old, d, out) == <<d>>
Published(old, d, out) == IF out.status = "returned" THEN <<d>> ELSE old

\* the refresh of a coordinator ends: `return await ...(self._update_data)`
Publish ==
    /\ phase = "running"
    /\ op \in Kinds /\ pc = "done" /\ outcome.status \in {"returned", "raised"}
    /\ published' = [published EXCEPT ![op] = Published(@, data, outcome)]
    /\ pc' = "published"
    /\ UNCHANGED <<now, phase, device_id, saving, refresh_requested, calls,
                   threads, grants, tokVars, last, auto_elevate_enabled,
                   store, inv, invLog, op, outcome, faults, elev, data,
                   metricsOut, seen, failed, cmd>>

(* --------------------------- specifications ---------------------------- *)
Inventories == {"settings", "metrics", "alarms"}

Setup == SetupAuthenticate \/ SetupGetDevices \/ SetupRetry

Switch == TurnOn \/ TurnOnDone \/ TurnOff

\* the command dispatcher and the elevation handshake under their callers
Next ==
    \/ Setup
    \/ ElevateStep
    \/ ButtonPress \/ ButtonDone
    \/ Switch
    \/ \E s \in SettingNames, v \in CommandValues : SetSetting(s, v)
    \/ \E sh \in Modes, dhw \in Modes : SetSmartControl(sh, dhw)
    \/ CommandPost \/ CommandRetry \/ CommandNoRetry
    \/ \E h \in Hours, i \in BOOLEAN : SetExtraHotWater(h, i)
    \/ ExtraHotWaterPost

Spec == Init /\ [][Next]_vars

\* set_setting and set_smartcontrol under every value a caller can pass
NextCommand ==
    \/ Setup
    \/ ElevateStep
    \/ \E s \in SettingNames, v \in Values : SetSetting(s, v)
    \/ \E sh \in AllModes, dhw \in AllModes : SetSmartControl(sh, dhw)
    \/ CommandPost \/ CommandRetry \/ CommandNoRetry

SpecCommand == Init /\ [][NextCommand]_vars

\* the two coordinators of a device
NextPoll ==
    \/ Setup
    \/ ElevateStep
    \/ Switch
    \/ StartFast \/ FastMetrics
    \/ StartNormal \/ NormalPre \/ NormalAfterPre
    \/ NormalStatus \/ NormalSettings
    \/ NormalMetrics
    \/ \E w \in Inventories : NormalInventoryFetch(w)
    \/ \E w \in Inventories : NormalInventoryCached(w)
    \/ NormalAlarms \/ NormalAccess \/ NormalAfterRenew

SpecPoll == Init /\ [][NextPoll]_vars

\* the statements of _update_data in the order of the text, by the
\* position a cycle has before each, and those of elevate_access
CycleOrder ==
    <<"pre", "after_pre", "status", "settings", "metrics", "inv_settings",
      "inv_metrics", "alarms", "inv_alarms", "access", "after_renew", "done">>
ElevOrder ==
    <<"none", "access", "generate", "claim", "approve", "confirm", "done">>
Place(order, p) == CHOOSE i \in 1..Len(order) : order[i] = p

\* a cycle is under way
CycleRunning == op \in Kinds /\ outcome.status = "running"

\* a call of the helper `verb` can be made: it returns, or it raises while
\* the bound on failing calls allows
CanCall(verb, url) ==
    \E r \in Responses(verb, url) : r.err = NoErr \/ faults < MaxFaults

\* ENABLED CycleStep written out: the cycle under way is at a statement of
\* _update_data or of elevate_access, and the call of that statement can
\* be made
StepReady ==
    IF elev.status = "running"
    THEN CanCall(ElevVerb(elev.pc), ElevUrl(elev.pc, device_id))
    ELSE CASE pc \in {"pre", "metrics", "access"} ->
                CanCall("GET_INTERNAL", UrlText(device_id))
           [] pc \in {"status", "settings", "alarms"} ->
                op = "normal" /\ CanCall("GET", UrlText(device_id))
           [] pc \in {InvPc(w) : w \in Inventories} ->
                /\ op = "normal"
                /\ \A w \in Inventories :
                      (pc = InvPc(w) /\ ShouldFetch(inv[w])) =>
                          CanCall("GET", UrlText(device_id))
           [] pc \in {"after_pre", "after_renew"} -> op = "normal"
           [] OTHER -> FALSE

\* the statement a cycle under way is at, run to the next one: one call of
\* the API, which returns or raises, and what _update_data does with it
CycleStep ==
    \/ ElevateStep
    \/ FastMetrics
    \/ NormalPre \/ NormalAfterPre
    \/ NormalStatus \/ NormalSettings \/ NormalMetrics
    \/ \E w \in Inventories : NormalInventoryFetch(w)
    \/ \E w \in Inventories : NormalInventoryCached(w)
    \/ NormalAlarms \/ NormalAccess \/ NormalAfterRenew

\* the coordinators as their observers see them, the flag being off
NextPublish ==
    \/ Setup
    \/ StartFast \/ FastMetrics
    \/ StartNormal \/ NormalStatus \/ NormalSettings \/ NormalMetrics
    \/ \E w \in Inventories : NormalInventoryFetch(w)
    \/ \E w \in Inventories : NormalInventoryCached(w)
    \/ NormalAlarms \/ NormalAccess
    \/ Publish

SpecPublish == Init /\ [][NextPublish]_vars

\* the Store of the entry under the switches of its devices and restarts
NextStore ==
    \/ Setup
    \/ ElevateStep
    \/ Switch
    \/ \E d \in DeviceIds, b \in BOOLEAN : OtherDeviceToggle(d, b)

SpecStore == Init /\ [][NextStore]_vars

\* the token manager under the clock: requests made one after another
NextToken ==
    \/ Setup
    \/ Tick
    \/ \E verb \in Verbs : ApiCall(verb)

SpecToken == Init /\ [][NextToken]_vars

(* ------------- the token check run by jobs side by side ---------------- *)
\* _ensure_tokens_valid, the test: a job that finds the tokens in date
\* goes on to its request, another one refreshes when a token set exists
\* and signs in when none does
TokenCheck(t) ==
    /\ phase = "running"
    /\ ~InFlight(threads[t])
    /\ threads' = [threads EXCEPT ![t] =
          [pc |-> IF ~NeedsAcquire(tokens, token_expiry, now) THEN "returned"
                  ELSE IF tokens # <<>> THEN "refresh" ELSE "signin",
           got |-> <<>>]]
    /\ UNCHANGED <<now, phase, device_id, saving, refresh_requested, calls,
                   tokVars, last, coordVars, opVars, grants>>

\* `response = requests.post(...)` of _refresh_access_token or of
\* authenticate: the server issues a token set and the job has it in hand;
\* a failed refresh that raises AuthenticationError is followed by a
\* sign-in, every other failure leaves the job
TokenExchange(t) ==
    /\ threads[t].pc \in {"refresh", "signin"}
    /\ grants.issued < MaxIssued
    /\ \E out \in AuthOutcomes :
         LET err == IF threads[t].pc = "refresh" THEN RefreshError(out)
                    ELSE AuthenticateError(out)
             n == grants.issued + 1
         IN IF out.kind = "ok"
            THEN /\ threads' = [threads EXCEPT ![t] =
                       [pc |-> "store",
                        got |-> <<[expiresIn |-> out.expiresIn,
                                   serial |-> n]>>]]
                 /\ grants' = [grants EXCEPT !.issued = n, !.obtained = n]
            ELSE /\ threads' = [threads EXCEPT ![t].pc =
                       IF threads[t].pc = "refresh"
                          /\ err.cls = "AuthenticationError"
                       THEN "signin" ELSE "raised"]
                 /\ grants' = grants
    /\ UNCHANGED <<now, phase, device_id, saving, refresh_requested, calls,
                   tokVars, last, coordVars, opVars>>

\* `self.tokens.update({...})` of _refresh_access_token,
\* `self.tokens = response.json()` of authenticate
TokenStore(t) ==
    /\ threads[t].pc = "store"
    /\ tokens' = <<[expiresIn |-> threads[t].got[1].expiresIn]>>
    /\ issueTime' = now
    /\ grants' = [grants EXCEPT !.held = threads[t].got[1].serial]
    /\ threads' = [threads EXCEPT ![t] = [pc |-> "expiry", got |-> <<>>]]
    /\ UNCHANGED <<now, phase, device_id, saving, refresh_requested, calls,
                   token_expiry, last, coordVars, opVars>>

\* `self.token_expiry = datetime.now() + timedelta(seconds=
\* int(self.tokens["expiresIn"]) - 60)`: the lifetime is read from the
\* token set the client holds at this moment
TokenExpiry(t) ==
    /\ threads[t].pc = "expiry"
    /\ token_expiry' = <<ExpiryFor(now, tokens[1].expiresIn)>>
    /\ grants' = [grants EXCEPT !.expiryOf = grants.held]
    /\ threads' = [threads EXCEPT ![t].pc = "returned"]
    /\ UNCHANGED <<now, phase, device_id, saving, refresh_requested, calls,
                   tokens, issueTime, last, coordVars, opVars>>

\* the token checks of the pollers and of a command, interleaved
NextRace ==
    \/ Setup
    \/ Tick
    \/ \E t \in Threads : TokenCheck(t)
    \/ \E t \in Threads : TokenExchange(t)
    \/ \E t \in Threads : TokenStore(t)
    \/ \E t \in Threads : TokenExpiry(t)

SpecRace == Init /\ [][NextRace]_vars


(* ------------- async_set_auto_elevate of the devices side by side ------ *)
\* `self.auto_elevate_enabled = enabled`, then the call waits for the load
SetFlagBegin(d, b) ==
    /\ Idle
    /\ saving[d].pc = "idle"
    /\ saving' = [saving EXCEPT ![d] =
                      [pc |-> "load", enabled |-> <<b>>, data |-> <<>>]]
    /\ auto_elevate_enabled' =
          IF d = device_id
          THEN [auto_elevate_enabled EXCEPT !["normal"] = b]
          ELSE auto_elevate_enabled
    /\ UNCHANGED <<now, phase, device_id, tokVars, last, store, inv, invLog,
                   published, opVars, threads, grants, calls,
                   refresh_requested>>

\* `data = await self._store.async_load() or {}`, `data[self.device_id] =
\* enabled`, then the call waits for the save
SetFlagLoad(d) ==
    /\ saving[d].pc = "load"
    /\ saving' = [saving EXCEPT ![d].pc = "save",
                                  ![d].data = <<SaveFlag(store, d,
                                                 saving[d].enabled[1])>>]
    /\ UNCHANGED <<now, phase, device_id, tokVars, last, coordVars, opVars,
                   threads, grants, calls, refresh_requested>>

\* `await self._store.async_save(data)`
SetFlagSave(d) ==
    /\ saving[d].pc = "save"
    /\ store' = saving[d].data[1]
    /\ saving' = [saving EXCEPT ![d].pc = "idle", ![d].data = <<>>]
    /\ UNCHANGED <<now, phase, device_id, tokVars, last,
                   auto_elevate_enabled, inv, invLog, published, opVars,
                   threads, grants, calls, refresh_requested>>

\* the switches of the devices of one account, turned side by side
NextSave ==
    \/ Setup
    \/ \E d \in DeviceIds, b \in BOOLEAN : SetFlagBegin(d, b)
    \/ \E d \in DeviceIds : SetFlagLoad(d)
    \/ \E d \in DeviceIds : SetFlagSave(d)

SpecSave == Init /\ [][NextSave]_vars

(* ------------------------- claims: token manager ----------------------- *)
\* C1: a token check made while now < issueTime + L - 60, issueTime being
\* the instant of the most recent successful acquisition (inside a token
\* check or by the authenticate() of setup), makes no sign-in and no
\* refresh exchange.
C1_NoAcquisitionWhileFresh ==
    (last.verb # "none" /\ last.fresh)
        => (last.nRefresh = 0 /\ last.nSignin = 0)

\* C2: a token check made with a token set at or past its stored expiry
\* makes exactly one refresh; when the refresh fails, for whatever reason,
\* it then makes exactly one sign-in; no check makes more than one of
\* either.
C2_RefreshThenSignIn ==
    /\ last.nRefresh <= 1 /\ last.nSignin <= 1
    /\ (last.verb # "none" /\ last.hadTokens /\ last.pastExpiry)
          => /\ last.nRefresh = 1
             /\ last.rOut.kind # "ok" => last.nSignin = 1

\* C3 as stated: every request that is sent is sent with a token set and
\* strictly before the stored token_expiry, whatever positive lifetime the
\* server reported.
C3_SentOnlyBeforeExpiry == last.sent => last.sentValid

\* C3 as amended: every request that is sent with a token set whose
\* lifetime exceeds the 60 s margin is sent strictly before the stored
\* token_expiry.
C3_SentBeforeExpiryLongLived ==
    (last.sent /\ last.sentLifetime > Margin) => last.sentValid

\* a request went out right after its token check refreshed a token set
\* that had reached its expiry, the new lifetime exceeding the margin
C3_Witness ==
    /\ last.sent /\ last.sentLifetime > Margin /\ last.sentValid
    /\ last.pastExpiry /\ last.nRefresh = 1

\* C4: for each of the four helpers, a request that was sent and failed
\* raises ApiConnectionError on a timeout, AuthenticationError on HTTP 401,
\* ApiConnectionError on a status >= 500 and the plain QvantumApiError on
\* any other HTTP error.
C4_UniformClassification ==
    \A verb \in Verbs :
        (last.verb = verb /\ last.sent /\ last.sendOut.kind # "ok")
            => last.err.cls =
                 (IF last.sendOut.kind = "timeout" THEN "ApiConnectionError"
                  ELSE IF last.sendOut.status = 401 THEN "AuthenticationError"
                  ELSE IF last.sendOut.status >= 500 THEN "ApiConnectionError"
                  ELSE "QvantumApiError")

(* ----------------------------- claims: pollers ------------------------- *)
\* C5: in a cycle of either poller, an internal-metrics fetch answered
\* with an HTTP status of 500..599 ends the cycle with UpdateFailed; no
\* snapshot is returned.
C5_ServerErrorFailsCycle ==
    (op \in {"fast", "normal"} /\ metricsOut.kind = "http"
        /\ metricsOut.status >= 500)
        => (outcome.status = "raised" /\ outcome.err.cls = "UpdateFailed")

\* C6: in a cycle of either poller, an internal-metrics fetch that fails
\* with a timeout or an HTTP status below 500 does not end the cycle with
\* an error: the snapshot has no internal_metrics key, and the normal
\* cycle still takes the inventories, the alarms and the access level.
C6_OtherErrorKeepsCycle ==
    (op \in {"fast", "normal"}
        /\ (metricsOut.kind = "timeout"
              \/ (metricsOut.kind = "http" /\ metricsOut.status < 500)))
        => /\ outcome.status # "raised"
           /\ data.internal_metrics = <<>>
           /\ (op = "normal" /\ outcome.status = "returned")
                 => /\ data.settings_inventory # <<>>
                    /\ data.metrics_inventory # <<>>
                    /\ data.alarms_inventory # <<>>
                    /\ data.alarms # <<>>
                    /\ data.access_level # <<>>

(* ------------------------ claims: elevation handshake ------------------ *)
\* C7: when the access level elevate_access fetches first has
\* writeAccessLevel >= 20, elevate_access makes that one API call and no
\* other, and returns the fetched access level as it is.
C7_ElevatedShortCircuit ==
    (elev.first # <<>> /\ WriteLevel(elev.first[1]) >= ElevatedLevel)
        => /\ elev.status = "returned"
           /\ elev.calls = <<[api |-> "get_access_level", arg |-> <<>>,
                               ok |-> TRUE, access |-> elev.first]>>
           /\ elev.result = elev.first

\* elevate_access returned at once for a device that was elevated already
C7_Witness ==
    /\ elev.status = "returned" /\ elev.first # <<>>
    /\ WriteLevel(elev.first[1]) >= ElevatedLevel
    /\ Len(elev.calls) = 1

\* C8: when the first fetched writeAccessLevel is below 20 and generate,
\* claim and approve each succeeded, elevate_access has made exactly five
\* API calls: the access-level fetch, generate-access-code, claim-grant
\* with the generated code, approve with the same code, the confirming
\* access-level fetch, in this order; it returns what the confirming fetch
\* answered, elevated or not.
C8_HandshakeOrder ==
    LET c == elev.calls
        succeeded(api) == \E i \in 1..Len(c) : c[i].api = api /\ c[i].ok
    IN (/\ elev.status \in {"returned", "raised"}
        /\ elev.first # <<>> /\ WriteLevel(elev.first[1]) < ElevatedLevel
        /\ elev.code # <<>>
        /\ succeeded("generate_access_code")
        /\ succeeded("claim_grant")
        /\ succeeded("approve_access"))
        => /\ Len(c) = 5
           /\ c[1].api = "get_access_level"
           /\ c[2].api = "generate_access_code"
           /\ c[3].api = "claim_grant" /\ c[3].arg = elev.code
           /\ c[4].api = "approve_access" /\ c[4].arg = elev.code
           /\ c[5].api = "get_access_level"
           /\ c[5].ok => (elev.status = "returned"
                            /\ elev.result = c[5].access)

\* a complete handshake whose confirming fetch still shows a level below 20
C8_Witness ==
    /\ elev.status = "returned" /\ Len(elev.calls) = 5
    /\ elev.calls[4].ok /\ elev.calls[5].ok
    /\ elev.result # <<>> /\ WriteLevel(elev.result[1]) < ElevatedLevel

\* C9: whenever a call of the handshake fails (either access-level fetch,
\* generate, claim, approve) or generate answers without a code,
\* elevate_access returns None instead of raising, and the failed call is
\* its last call.
C9_FailureReturnsNone ==
    \A i \in 1..Len(elev.calls) :
        (\/ ~elev.calls[i].ok
         \/ (elev.calls[i].api = "generate_access_code" /\ elev.code = <<>>))
            => /\ elev.status = "returned" /\ elev.result = <<>>
               /\ i = Len(elev.calls)

(* --------------------------- claims: commands -------------------------- *)
\* C10: one set_setting or set_smartcontrol sends at most two command
\* POSTs and starts at most one elevate_access; a second POST is sent only
\* after the first answer was a denial and elevate_access returned an
\* access level, and it carries the payload of the first; a denial in the
\* second answer ends the call, with no further elevation or POST.
C10_AtMostOneRetry ==
    op \in {"set_setting", "set_smartcontrol"} =>
        /\ Len(cmd.posts) <= 2 /\ cmd.elevations <= 1
        /\ Len(cmd.posts) = 2
              => /\ cmd.denied # <<>> /\ cmd.denied[1]
                 /\ cmd.elevations = 1
                 /\ elev.status = "returned" /\ elev.result # <<>>
                 /\ cmd.posts[2] = cmd.posts[1]
        /\ (Len(cmd.denied) = 2 /\ cmd.denied[2])
              => /\ outcome.status = "returned" /\ pc = "done"
                 /\ elev.status = "returned"
                 /\ Len(cmd.posts) = 2 /\ cmd.elevations = 1

\* a command that was denied, elevated, sent again and denied again
C10_Witness ==
    /\ op \in {"set_setting", "set_smartcontrol"}
    /\ Len(cmd.posts) = 2 /\ cmd.denied = <<TRUE, TRUE>>
    /\ outcome.status = "returned"

(* ----------------- claims: commands, failed elevation ------------------ *)
\* C11: when the first answer of set_setting or set_smartcontrol is a denial
\* and the elevate_access that follows fails (a handshake call or one of its
\* access-level fetches fails), the operation returns that first, denying
\* answer to its caller and has sent one command POST only.
C11_FailedElevationReturnsDenial ==
    (/\ op \in {"set_setting", "set_smartcontrol"} /\ pc = "done"
     /\ cmd.denied # <<>> /\ cmd.denied[1]
     /\ elev.failed)
        => /\ outcome.status = "returned"
           /\ cmd.response # <<>> /\ CommandDenied(cmd, cmd.response[1])
           /\ Len(cmd.posts) = 1

(* --------------------------- claims: renewal --------------------------- *)
\* C12: a normal cycle with the flag set whose access-level fetch at the end
\* answers writeAccessLevel >= 20 and an expiresAt less than 300 seconds
\* ahead returns a snapshot, and, unless a call of the renewal fails, has
\* issued generate_access_code, claim_grant and approve_access.
C12_RenewalRerunsHandshake ==
    (/\ op = "normal" /\ pc = "done"
     /\ auto_elevate_enabled["normal"]
     /\ seen.access # <<>>
     /\ WriteLevel(seen.access[1]) >= 20
     /\ seen.access[1].expiresAt # <<>>
     /\ seen.access[1].expiresAt[1] - now > 0
     /\ seen.access[1].expiresAt[1] - now < 300)
        => /\ outcome.status = "returned"
           /\ ~elev.failed =>
                \A a \in {"generate_access_code", "claim_grant",
                          "approve_access"} :
                    \E i \in 1..Len(elev.calls) : elev.calls[i].api = a

(* ---------------- claims: elevation before the fetches ----------------- *)
\* C13 as stated: in a normal cycle whose access check before the fetches
\* found a level below 20, elevate_access is started once, before any data
\* fetch, and when it fails (None or an API error) the cycle still performs
\* every data fetch and returns a snapshot.
C13_FailedElevationAlwaysReturns ==
    (op = "normal" /\ seen.low) =>
        /\ pc = "after_pre" =>
             elev.status # "none" /\ data = EmptyData /\ failed = {}
        /\ pc \notin {"pre", "after_pre"} => seen.elevation # "none"
        /\ pc = "status" => elev = NoElev /\ data = EmptyData
        /\ (pc = "done" /\ seen.elevation \in {"null", "raised"}) =>
             /\ outcome.status = "returned"
             /\ \A k \in {"status", "settings"} :
                    data[k] # <<>> \/ k \in failed
             /\ data.internal_metrics # <<>> \/ "metrics" \in failed
             /\ \A w \in Inventories : data[InvKey(w)] # <<>>
             /\ data.alarms # <<>> /\ data.access_level # <<>>

\* C13: in a normal cycle whose access check before the fetches found a
\* level below 20, elevate_access is started once, before any data fetch;
\* when it fails (None or an API error) the cycle goes on to its fetches,
\* and it performs every one of them and returns a snapshot unless its
\* internal-metrics fetch failed and ended the cycle with UpdateFailed.
C13_FailedElevationKeepsCycle ==
    (op = "normal" /\ seen.low) =>
        /\ pc = "after_pre" =>
             elev.status # "none" /\ data = EmptyData /\ failed = {}
        /\ pc \notin {"pre", "after_pre"} => seen.elevation # "none"
        /\ pc = "status" => elev = NoElev /\ data = EmptyData
        /\ (pc = "done" /\ seen.elevation \in {"null", "raised"}) =>
             \/ /\ outcome.status = "returned"
                /\ \A k \in {"status", "settings"} :
                       data[k] # <<>> \/ k \in failed
                /\ data.internal_metrics # <<>> \/ "metrics" \in failed
                /\ \A w \in Inventories : data[InvKey(w)] # <<>>
                /\ data.alarms # <<>> /\ data.access_level # <<>>
             \/ /\ outcome.status = "raised"
                /\ outcome.err.cls = "UpdateFailed"
                /\ "metrics" \in failed
                /\ data.internal_metrics = <<>>

\* a cycle that returned its snapshot after the elevation before its
\* fetches had raised
C13_Witness ==
    /\ op = "normal" /\ pc = "done" /\ outcome.status = "returned"
    /\ seen.low /\ seen.elevation = "raised"
    /\ data.status # <<>> /\ data.access_level # <<>>

(* ------------------------- claims: inventories ------------------------- *)
\* C14: for each inventory, once a fetch of it has succeeded the cache holds
\* the value first fetched and keeps it, no cycle has requested the
\* inventory again, and the snapshot of every cycle that has taken the
\* inventory since carries that value.
C14_InventoryFetchedOnce ==
    \A w \in Inventories :
        invLog.first[w] # <<>> =>
            /\ inv[w] = invLog.first[w]
            /\ w \notin invLog.again
            /\ (op = "normal" /\ data[InvKey(w)] # <<>>) =>
                   data[InvKey(w)] = <<invLog.first[w]>>

\* a later cycle, no call having failed since set-up: the metrics inventory
\* is cached before its turn, and the settings inventory, fetched by an
\* earlier cycle, is in the snapshot
C14_Witness ==
    /\ op = "normal" /\ pc = "inv_metrics" /\ faults = 0
    /\ inv.metrics # <<>> /\ inv.settings # <<>>
    /\ data.settings_inventory = <<invLog.first.settings>>

C16_FastSnapshotWithinFastSet ==
    (op = "fast" /\ pc = "done" /\ outcome.status = "returned") =>
        /\ \A k \in DOMAIN data : k # "internal_metrics" => data[k] = <<>>
        /\ data.internal_metrics # <<>> =>
               data.internal_metrics[1].names \subseteq FAST_POLLING_METRICS

(* --------------- claims: defaults of the normal snapshot --------------- *)
\* C17: the snapshot a normal cycle returns has the key alarms, and when
\* the alarms fetch of the cycle failed its value is {"alarms": []}.
C17_AlarmsAlwaysPresent ==
    (op = "normal" /\ pc = "done" /\ outcome.status = "returned") =>
        /\ data.alarms # <<>>
        /\ "alarms" \in failed => data.alarms = << [alarms |-> {}] >>

\* a returned snapshot of a cycle whose alarms fetch failed
C17_Witness ==
    /\ op = "normal" /\ pc = "done" /\ outcome.status = "returned"
    /\ "alarms" \in failed
    /\ data.alarms = << [alarms |-> {}] >>

\* C18: the snapshot a normal cycle returns has the key access_level, and
\* when the access-level fetch at the end of the cycle failed its value is
\* readAccessLevel 10, writeAccessLevel 10 and no expiresAt.
C18_AccessLevelAlwaysPresent ==
    (op = "normal" /\ pc = "done" /\ outcome.status = "returned") =>
        /\ data.access_level # <<>>
        /\ "access" \in failed =>
               data.access_level =
                   << [writeAccessLevel |-> <<10>>,
                       readAccessLevel |-> <<10>>,
                       expiresAt |-> <<>>] >>

\* a returned snapshot of a cycle whose access-level fetch failed
C18_Witness ==
    /\ op = "normal" /\ pc = "done" /\ outcome.status = "returned"
    /\ "access" \in failed
    /\ data.access_level # <<>>
    /\ WriteLevel(data.access_level[1]) = 10

(* ----------------------- claims: fault isolation ----------------------- *)
\* C19: a normal cycle ends in one of two ways. It returns, and then each
\* of status, settings and internal metrics was fetched or failed, each
\* inventory was taken, and alarms and access level are in the snapshot,
\* whichever of these fetches failed. Or it raises, and then what it raises
\* is UpdateFailed for its failed internal-metrics fetch.
C19_OnlyMetricsAbortsCycle ==
    /\ (op = "normal" /\ pc # "done") => outcome.status # "raised"
    /\ (op = "normal" /\ pc = "done") =>
         \/ /\ outcome.status = "returned"
            /\ \A k \in {"status", "settings"} :
                   data[k] # <<>> \/ k \in failed
            /\ data.internal_metrics # <<>> \/ "metrics" \in failed
            /\ \A w \in Inventories :
                   /\ data[InvKey(w)] # <<>>
                   /\ inv[w] = <<>> => InvKey(w) \in failed
            /\ data.alarms # <<>> /\ data.access_level # <<>>
         \/ /\ outcome.status = "raised"
            /\ outcome.err.cls = "UpdateFailed"
            /\ "metrics" \in failed

\* a returned snapshot of a cycle whose status fetch failed: the later
\* fetches are in it
C19_Witness ==
    /\ op = "normal" /\ pc = "done" /\ outcome.status = "returned"
    /\ "status" \in failed /\ data.status = <<>>
    /\ data.settings # <<>> /\ data.internal_metrics # <<>>
    /\ data.alarms # <<>> /\ data.access_level # <<>>
    /\ \A w \in Inventories : inv[w] # <<>>

C21_ThreePayloadShapes ==
    (op = "set_extra_hot_water" /\ cmd.payload # <<>>) =>
        LET p == cmd.payload[1]
            a == cmd.args[1]
            cancelShape == p.cancel /\ ~p.indefinite /\ p.stopTime = <<>>
            indefShape == p.indefinite /\ ~p.cancel /\ p.stopTime = <<>>
            timedShape == p.stopTime # <<>> /\ ~p.indefinite /\ ~p.cancel
        IN /\ cancelShape <=> (a.hours = 0 /\ ~a.indefinite)
           /\ indefShape <=> a.indefinite
           /\ timedShape <=> (a.hours # 0 /\ ~a.indefinite)
           /\ ~(p.cancel /\ p.indefinite)
           /\ \A i \in 1..Len(cmd.posts) : cmd.posts[i] = p

\* the call of the switch, hours 0 and indefinite, was sent in the
\* indefinite shape
C21_Witness ==
    /\ op = "set_extra_hot_water" /\ pc = "done"
    /\ cmd.args # <<>> /\ cmd.args[1].hours = 0 /\ cmd.args[1].indefinite
    /\ Len(cmd.posts) = 1
    /\ cmd.posts[1].indefinite /\ ~cmd.posts[1].cancel

\* C22: the stopTime of a timed set_extra_hot_water(hours), hours >= 1, read
\* as the UTC instant its Z denotes, is the instant of the call plus hours
\* hours, whatever the offset of the host's local time.
C22_StopTimeIsNowPlusHours ==
    (/\ op = "set_extra_hot_water" /\ cmd.payload # <<>>
     /\ cmd.args[1].hours >= 1 /\ ~cmd.args[1].indefinite) =>
        /\ cmd.payload[1].stopTime # <<>>
        /\ Instant(cmd.payload[1].stopTime[1]) =
               <<cmd.args[1].at + cmd.args[1].hours * 3600>>

\* C23: set_extra_hot_water never starts elevate_access and sends no second
\* command POST, whatever the answer says: a call that returned has sent one
\* POST (a call that raised at most one) and hands the answer on as it
\* came, a denial included.
C23_ExtraHotWaterSinglePost ==
    op = "set_extra_hot_water" =>
        /\ elev = NoElev /\ cmd.elevations = 0
        /\ pc \in {"post", "done"}
        /\ Len(cmd.posts) <= 1
        /\ pc = "post" => cmd.posts = <<>> /\ outcome.status = "running"
        /\ pc = "done" =>
             \/ /\ outcome.status = "returned"
                /\ Len(cmd.posts) = 1
                /\ cmd.response # <<>> /\ cmd.response[1] \in CommandBodies
             \/ /\ outcome.status = "raised"
                /\ cmd.response = <<>>

\* a call whose answer carried 'permission denied' returned that answer
\* after its one POST
C23_Witness ==
    /\ op = "set_extra_hot_water" /\ pc = "done"
    /\ outcome.status = "returned"
    /\ cmd.response # <<>> /\ AnyDenied(cmd.response[1])
    /\ Len(cmd.posts) = 1 /\ elev = NoElev

(* ------------------- claims: setup and the stored flag ----------------- *)
\* C24: a setup whose sign-in failed ends with ConfigEntryNotReady, never
\* with another exception leaving async_setup_entry, and while the entry is
\* not set up no coordinator cycle and no command runs.
C24_SignInFailureIsNotReady ==
    /\ phase # "setup_error"
    /\ phase # "running" => op = "none" /\ pc = "none"

\* C25: a device with no stored flag loads as False; the step in which
\* async_set_auto_elevate(b) of the device completes leaves a Store from
\* which the device loads b, with the stored value of every other device as
\* it was.
C25_FlagRoundTrip ==
    [][/\ \A d \in DeviceIds :
            store'[d] = <<>> => LoadedFlag(store', d) = FALSE
       /\ (Idle /\ op' \in {"turn_on", "turn_off"}) =>
            /\ LoadedFlag(store', device_id) = (op' = "turn_on")
            /\ \A d \in DeviceIds \ {device_id} : store'[d] = store[d]
       /\ (phase = "authed" /\ phase' = "running") =>
            auto_elevate_enabled'["normal"] = LoadedFlag(store', device_id)
      ]_vars

\* after a restart the coordinator holds the flag turned on before it, and
\* the flag of the other device, turned off in between, is still stored
C25_Witness ==
    /\ phase = "running" /\ op = "none"
    /\ auto_elevate_enabled["normal"]
    /\ store[device_id] = <<TRUE>>
    /\ \E d \in DeviceIds \ {device_id} : store[d] = <<FALSE>>

(* --------------------------- claims: metric names ---------------------- *)
\* C26: when a normal cycle has stored the internal metrics it asked for with
\* METRIC_NAMES, METRIC_NAMES has none of the seven names of
\* FAST_POLLING_METRICS, and the stored metrics, answered within the names
\* asked for, hold no fast metric.
C26_DisjointMetricAuthority ==
    (/\ op = "normal" /\ data.internal_metrics # <<>>
     /\ data.internal_metrics[1].names \subseteq METRIC_NAMES) =>
        /\ METRIC_NAMES \cap FAST_POLLING_METRICS = {}
        /\ data.internal_metrics[1].names \cap FAST_POLLING_METRICS = {}

(* ------------------------ claims: jobs side by side -------------------- *)
\* C27: once the token check of every job on the shared client has
\* returned, the client holds the token set that the server answered with
\* last, and token_expiry was computed from that same set.
C27_LastObtainedRetained ==
    (/\ phase = "running"
     /\ \A t \in Threads : threads[t].pc = "returned") =>
        /\ grants.held = grants.obtained
        /\ grants.expiryOf = grants.held

(* ----------------------- claims: the request helpers ------------------- *)
\* C28: one call of a request helper (GET, internal GET, POST, PATCH) puts
\* at most one request on the wire, and a call whose request failed has
\* raised after that one request; a call stopped by the token check sends
\* none. (The second POST of set_setting / set_smartcontrol is C10's.)
C28_HelperSendsAtMostOnce ==
    last.verb # "none" =>
        /\ last.nSend <= 1
        /\ last.sent <=> last.nSend = 1
        /\ (last.sent /\ last.sendOut.kind # "ok") => last.err # NoErr

C28_Witness ==
    /\ last.verb = "PATCH"
    /\ last.sent /\ last.sendOut.kind = "http" /\ last.sendOut.status = 503
    /\ last.err # NoErr /\ last.nSend = 1

(* ---------------------- claims: the course of a cycle ------------------ *)
\* C29: a poll cycle under way always has its next statement to run, each
\* statement being one API call that returns or raises; every step of the
\* cycle moves forward in the text of _update_data (within one
\* elevate_access: forward in the handshake), so that the cycle ends after
\* boundedly many steps and makes no fetch twice; an elevate_access starts
\* in a cycle only at the check before the fetches and at the renewal after
\* them, at each once; and a cycle that does not return its snapshot has
\* raised UpdateFailed.
C29_CycleRunsOnceToItsEnd ==
    /\ [](CycleRunning => StepReady)
    /\ [][CycleRunning =>
            /\ op' = op
            /\ \/ Place(CycleOrder, pc') > Place(CycleOrder, pc)
               \/ /\ pc' = pc
                  /\ Place(ElevOrder, elev'.pc) > Place(ElevOrder, elev.pc)
            /\ (elev'.status = "running" /\ elev.status # "running") =>
                  /\ op = "normal"
                  /\ pc' \in {"after_pre", "after_renew"}
                  /\ pc' # pc
            /\ outcome'.status \in {"running", "returned", "raised"}
            /\ outcome'.status = "raised" =>
                  outcome'.err.cls = "UpdateFailed"]_vars

C29_Witness ==
    /\ op = "normal" /\ pc = "done" /\ outcome.status = "returned"
    /\ seen.low /\ seen.elevation # "none"
    /\ elev.status # "none" /\ elev.calls # <<>>
    /\ failed # {}

\* C30 as stated: in a poll cycle elevate_access runs, and with it the
\* calls of the handshake, only when the cycle is a normal one and the
\* auto-elevate flag is set; every step of a fast cycle is its
\* internal-metrics request, whatever the flag; and a normal cycle with the
\* flag off that has ended has made exactly one get_access_level call.
C30_FlagOffCycleFetchesAccessOnce ==
    /\ [][(op \in Kinds /\ op' = op
           /\ (Len(elev'.calls) > Len(elev.calls)
               \/ (elev'.status = "running" /\ elev.status # "running"))) =>
              (op = "normal" /\ auto_elevate_enabled["normal"])]_vars
    /\ [][(op = "fast" /\ CycleRunning) => FastMetrics]_vars
    /\ [](op = "fast" => (elev = NoElev /\ calls.access = 0))
    /\ []((/\ op = "normal" /\ ~auto_elevate_enabled["normal"]
           /\ outcome.status \in {"returned", "raised"}) =>
              (elev = NoElev /\ calls.access = 1))

\* C30, amended: the same, but the normal cycle with the flag off makes at
\* most one get_access_level call: one when it returns its snapshot, none
\* when the internal-metrics fetch ended it with UpdateFailed.
C30_ElevationOnlyWhenFlagSet ==
    /\ [][(op \in Kinds /\ op' = op
           /\ (Len(elev'.calls) > Len(elev.calls)
               \/ (elev'.status = "running" /\ elev.status # "running"))) =>
              (op = "normal" /\ auto_elevate_enabled["normal"])]_vars
    /\ [][(op = "fast" /\ CycleRunning) => FastMetrics]_vars
    /\ [](op = "fast" => (elev = NoElev /\ calls.access = 0))
    /\ []((op = "normal" /\ ~auto_elevate_enabled["normal"]) =>
              /\ elev = NoElev
              /\ calls.access <= 1
              /\ outcome.status = "returned" => calls.access = 1
              /\ outcome.status = "raised" => calls.access = 0)

C30_Witness ==
    /\ op = "normal" /\ ~auto_elevate_enabled["normal"]
    /\ store[device_id] = <<FALSE>>
    /\ pc = "done" /\ outcome.status = "returned"
    /\ calls.access = 1 /\ elev = NoElev
    /\ seen.access # <<>> /\ WriteLevel(seen.access[1]) < ElevatedLevel

(* ------------------ claims: the flag and the switches ------------------ *)
\* C31: no step of a poll cycle, fast or normal, changes the auto-elevate
\* flag of a coordinator or the persisted flags, whatever its fetches and
\* its elevations end in; the flags change only when setup loads them and
\* when a switch is turned.
C31_CyclesKeepTheFlag ==
    [][/\ op' \in Kinds =>
            /\ auto_elevate_enabled' = auto_elevate_enabled
            /\ store' = store
       /\ (auto_elevate_enabled' # auto_elevate_enabled \/ store' # store) =>
            \/ phase = "authed" /\ phase' = "running"
            \/ Idle /\ op' \in {"turn_on", "turn_off"}]_vars

C31_Witness ==
    /\ op = "normal" /\ pc = "done" /\ outcome.status = "returned"
    /\ seen.low /\ seen.elevation = "raised"
    /\ auto_elevate_enabled["normal"] /\ store[device_id] = <<TRUE>>

\* C32: a press of the elevate button that has ended has ended without an
\* exception, whatever elevate_access came to: an access level, None, or
\* an API error.
C32_ButtonPressNeverRaises ==
    (op = "button" /\ pc = "done") => outcome.status = "returned"

\* C33: when the elevation attempt of async_turn_on starts, the flag of the
\* switch's coordinator is true and so is the persisted flag of the device;
\* both stay true through the attempt and after it, however it ends; and
\* the turn-on that has ended has requested a refresh of the coordinator
\* exactly when elevate_access did not raise.
C33_TurnOnSetsFlagFirst ==
    /\ [][(op' = "turn_on" /\ elev'.status = "running"
           /\ elev.status # "running") =>
              /\ auto_elevate_enabled'["normal"]
              /\ store'[device_id] = <<TRUE>>
              /\ ~refresh_requested']_vars
    /\ [](op = "turn_on" =>
              /\ auto_elevate_enabled["normal"]
              /\ store[device_id] = <<TRUE>>
              /\ pc # "done" => ~refresh_requested
              /\ pc = "done" => (refresh_requested <=> elev.status # "raised"))

C33_Witness ==
    /\ op = "turn_on" /\ pc = "done"
    /\ elev.status = "raised" /\ ~refresh_requested
    /\ auto_elevate_enabled["normal"] /\ store[device_id] = <<TRUE>>

(* ------------------- claims: failed acquisitions ---------------------- *)
\* C34: the token set and token_expiry of a client change only in a step
\* whose sign-in or refresh succeeded; a failed refresh, a failed sign-in
\* and a failed request (HTTP 401 included) leave both as they were, so
\* that a token set past its expiry is still there for the next check.
\* (Setting the entry up again makes a new client.)
C34_TokensChangeOnlyOnAcquisition ==
    [][(tokens' # tokens \/ token_expiry' # token_expiry) =>
          \/ phase' = "new"
          \/ phase = "new" /\ phase' = "authed"
          \/ /\ last'.nRefresh + last'.nSignin > 0
             /\ last'.sent
             /\ tokens' # <<>> /\ token_expiry' # <<>>]_vars

C34_Witness ==
    /\ phase = "running"
    /\ last.pastExpiry /\ last.nRefresh = 1 /\ ~last.sent
    /\ last.rOut.kind = "http" /\ last.rOut.status = 401
    /\ tokens # <<>> /\ token_expiry # <<>> /\ now >= token_expiry[1]

(* --------------- claims: the flags of the devices of an account -------- *)
\* C35: once every async_set_auto_elevate call on the devices of the account
\* has completed, the Store holds for each device the value most recently
\* set for it, and that value is the flag its coordinator holds in memory.
C35_EveryDeviceKeepsItsFlag ==
    (\A d \in DeviceIds : saving[d].pc = "idle") =>
        \A d \in DeviceIds :
            saving[d].enabled # <<>> =>
                /\ store[d] = saving[d].enabled
                /\ d = device_id =>
                       auto_elevate_enabled["normal"] = saving[d].enabled[1]

(* ------------------ claims: the payloads of the commands --------------- *)
\* C36: set_setting sends a str value that is a run of "-" (possibly empty)
\* followed by decimal digits, and that int() parses (at most one "-"), as
\* that integer; it sends every other value as it was passed; building the
\* payload never raises, and the payload writes the setting it was called
\* with and no other.
C36_CoercionOfTheValue ==
    cmd.name = "set_setting" =>
        LET v == cmd.args[1].value
            digits == LStripMinus(v.text)
            dashes == Len(v.text) - Len(digits)
            number == IF dashes = 1 THEN 0 - Magnitude(digits)
                      ELSE Magnitude(digits)
            sentAs == IF v.type = "str" /\ IsDigit(digits) /\ dashes <= 1
                      THEN IntVal(number)
                      ELSE v
        IN /\ cmd.payload = <<[command |-> "update_settings",
                               settings |-> {<<cmd.setting, sentAs>>}]>>
           /\ \A i \in 1..Len(cmd.posts) : cmd.posts[i] = cmd.payload[1]
           /\ pc = "post" => outcome.status = "running"

C36_Witness ==
    /\ cmd.name = "set_setting" /\ cmd.setting = "op_mode"
    /\ cmd.args[1].value = StrVal(<<"-", "5">>)
    /\ Len(cmd.posts) = 1
    /\ cmd.posts[1].settings = {<<"op_mode", IntVal(-5)>>}

\* C37: set_smartcontrol called with -1 for either mode sends exactly
\* {use_adaptive: false} and writes neither mode; called with two modes it
\* sends {use_adaptive: true, smart_sh_mode: sh, smart_dhw_mode: dhw}; the
\* POST after a successful elevation carries the payload of the first.
C37_SmartControlPayload ==
    cmd.name = "set_smartcontrol" =>
        LET sh == cmd.args[1].sh
            dhw == cmd.args[1].dhw
        IN /\ (sh = -1 \/ dhw = -1) =>
                 cmd.payload[1].settings = {<<"use_adaptive", BoolVal(FALSE)>>}
           /\ (sh # -1 /\ dhw # -1) =>
                 cmd.payload[1].settings =
                     {<<"use_adaptive", BoolVal(TRUE)>>,
                      <<"smart_sh_mode", IntVal(sh)>>,
                      <<"smart_dhw_mode", IntVal(dhw)>>}
           /\ cmd.payload[1].command = "update_settings"
           /\ \A i \in 1..Len(cmd.posts) : cmd.posts[i] = cmd.payload[1]

C37_Witness ==
    /\ cmd.name = "set_smartcontrol"
    /\ cmd.args[1].sh = 0 /\ cmd.args[1].dhw = -1
    /\ Len(cmd.posts) = 2
    /\ cmd.posts[2].settings = {<<"use_adaptive", BoolVal(FALSE)>>}

====
